---- MODULE Spec2Model ----
(***************************************************************************)
(* A model of the finance bot: the Telegram webhook handler of api/bot.js  *)
(* (access guard, Gemini intent parser, dispatcher, execution handlers),   *)
(* the earlier revision of the same handler that still has the report and  *)
(* balance queries, and the store they share.                              *)
(*                                                                         *)
(* Time is in milliseconds since day 0 of the model, a midnight in UTC.    *)
(* Strings the code only passes around are short tags; a string the code   *)
(* takes apart (the model's reply body, the HH:MM of a reminder) is a      *)
(* sequence of characters.                                                 *)
(***************************************************************************)
EXTENDS Integers, Sequences, FiniteSets, TLC

VARIABLES
    geminiModel,    \* bot.js:36-42   TRUE iff GEMINI_API_KEY was set at load
    serverOffset,   \* the server's timezone offset from UTC, in minutes
    now,            \* the current instant, in ms
    transactions,   \* users/{uid}/transactions, in insertion order
    accounts,       \* users/{uid}/accounts, a set of documents
    reminders,      \* users/{uid}/reminders, in insertion order
    installments,   \* users/{uid}/installments, written out of band
    budgets,        \* users/{uid}/budgets, written out of band
    inflight,       \* the handler invocations waiting for their store call
    tmpdir,         \* the names of the files in os.tmpdir()
    last            \* what the last delivered update did (its inputs and effects)

vars == <<geminiModel, serverOffset, now, transactions, accounts, reminders,
          installments, budgets, inflight, tmpdir, last>>

store == <<transactions, accounts, reminders, installments, budgets>>

---------------------------------------------------------------------------
(* Bounds of the model *)

MaxTx == 2
MaxRem == 1

---------------------------------------------------------------------------
(* JavaScript values *)

\* An optional string: undefined, or a string (possibly empty).
Undef == [has |-> FALSE, v |-> ""]
Str(s) == [has |-> TRUE, v |-> s]

\* JS truthiness of an optional string: undefined and "" are falsy.
Truthy(x) == x.has /\ x.v # ""

\* x || dflt
OrElse(x, dflt) == IF Truthy(x) THEN x.v ELSE dflt

---------------------------------------------------------------------------
(* Time *)

MsPerSec == 1000
MsPerMin == 60 * MsPerSec
MsPerHour == 60 * MsPerMin
MsPerDay == 24 * MsPerHour

\* 'Asia/Tehran' is UTC+03:30 all year (no daylight saving).
TehranOffsetMin == 3 * 60 + 30

\* The UTC instant of day d, h:m:s.ms
At(d, h, m, s, ms) == d * MsPerDay + h * MsPerHour + m * MsPerMin + s * MsPerSec + ms

\* Timestamp.now() / Timestamp.fromDate(date): seconds and nanoseconds.
TimestampFromDate(d) ==
    [seconds |-> d \div MsPerSec, nanoseconds |-> (d % MsPerSec) * 1000000]

\* Firestore's order on Timestamps.
TsLess(a, b) ==
    \/ a.seconds < b.seconds
    \/ a.seconds = b.seconds /\ a.nanoseconds < b.nanoseconds

TsLeq(a, b) == a = b \/ TsLess(a, b)

\* The instant of a Timestamp, in ms.
TsMillis(t) == t.seconds * MsPerSec + t.nanoseconds \div 1000000

\* The wall clock of instant t in a zone offMin minutes east of UTC:
\* the day number and the ms since that day's midnight.
WallDay(t, offMin) == (t + offMin * MsPerMin) \div MsPerDay
WallMs(t, offMin) == (t + offMin * MsPerMin) % MsPerDay

\* date.toLocaleString('en-US', {timeZone}) : "M/D/YYYY, h:mm:ss AM", the zone's
\* wall clock to the second (the milliseconds are not printed).
toLocaleString(t, offMin) ==
    [day |-> WallDay(t, offMin),
     hour |-> WallMs(t, offMin) \div MsPerHour,
     minute |-> (WallMs(t, offMin) % MsPerHour) \div MsPerMin,
     second |-> (WallMs(t, offMin) % MsPerMin) \div MsPerSec]

\* new Date("M/D/YYYY, h:mm:ss AM"): the string read as the server's local time.
DateParseLocal(w) ==
    w.day * MsPerDay + w.hour * MsPerHour + w.minute * MsPerMin
        + w.second * MsPerSec - serverOffset * MsPerMin

\* date.setHours(h, m, 0, 0), in the server's local time.
setHours(d, h, m) ==
    WallDay(d, serverOffset) * MsPerDay + h * MsPerHour + m * MsPerMin
        - serverOffset * MsPerMin

\* date.setDate(date.getDate() + 1), in the server's local time.
setDateNextDay(d) == d + MsPerDay

---------------------------------------------------------------------------
(* Configuration *)

\* bot.js:11  the operator's chat id, a string of the environment.
CHAT_ID == Str("1")

\* bot.js:15-18
VALID_CATEGORIES ==
    [income |-> {"flash", "filtershekan", "instagram", "appleid", "hamkar", "sayer"},
     expense |-> {"khorak", "pushak", "ghahve", "ghest", "internet", "sayer"}]

\* The default category 'سایر' ("other").
OtherCategory == "sayer"

Kinds == {"expense", "income"}

---------------------------------------------------------------------------
(* Reply texts *)

NotAuthorizedText == "not_authorized"
StartText == "start_greeting"
AddedText == "added"
BalanceUpdatedText == "balance_updated"
ReminderSetText == "reminder_set"
PleaseWaitText == "please_wait"
AiErrorText == "ai_error"
NotUnderstoodText == "not_understood"
ServerErrorText == "server_error"
DbReadErrorText == "db_read_error"
AnalysisErrorText == "analysis_error"
AnswerText == "answer"

---------------------------------------------------------------------------
(* Text the code takes apart.  A text is a sequence whose elements are      *)
(* characters, [ch |-> c], or a span [json |-> v] that stands for the JSON  *)
(* text of the value v.                                                     *)

Ch(c) == [ch |-> c]
Json(v) == [json |-> v]

Backtick == Ch("backtick")
Newline == Ch("newline")
Space == Ch("space")
Whitespace == {Newline, Space}

\* "```" and "```json"
Fence == <<Backtick, Backtick, Backtick>>
FenceJson == Fence \o <<Ch("j"), Ch("s"), Ch("o"), Ch("n")>>

\* Whether pat occurs in s at (1-based) position i.
OccursAt(s, pat, i) ==
    /\ i >= 1
    /\ i + Len(pat) - 1 <= Len(s)
    /\ SubSeq(s, i, i + Len(pat) - 1) = pat

\* s.indexOf(pat), 1-based; 0 when pat does not occur.
IndexOf(s, pat) ==
    IF \E i \in 1..Len(s) : OccursAt(s, pat, i)
    THEN CHOOSE i \in 1..Len(s) :
            /\ OccursAt(s, pat, i)
            /\ \A j \in 1..(i - 1) : ~OccursAt(s, pat, j)
    ELSE 0

\* s.includes(pat), s.startsWith(pat)
includes(s, pat) == IndexOf(s, pat) # 0
startsWith(s, pat) == OccursAt(s, pat, 1)

\* s.split(pat)[0]: the text before the first pat (all of s when there is none).
SplitFirst(s, pat) ==
    IF includes(s, pat) THEN SubSeq(s, 1, IndexOf(s, pat) - 1) ELSE s

\* s.split(pat)[1], for s that includes pat: the text between the first pat
\* and the next one (or the end).
SplitSecond(s, pat) ==
    SplitFirst(SubSeq(s, IndexOf(s, pat) + Len(pat), Len(s)), pat)

\* s.substring(a, b): 0-based, b exclusive; arguments are clamped to
\* 0..length and swapped when a > b.
substring(s, a, b) ==
    LET clamp(x) == IF x < 0 THEN 0 ELSE IF x > Len(s) THEN Len(s) ELSE x
        lo == IF clamp(a) <= clamp(b) THEN clamp(a) ELSE clamp(b)
        hi == IF clamp(a) <= clamp(b) THEN clamp(b) ELSE clamp(a)
    IN  SubSeq(s, lo + 1, hi)

RECURSIVE trimStart(_)
trimStart(s) ==
    IF s # <<>> /\ Head(s) \in Whitespace THEN trimStart(Tail(s)) ELSE s

RECURSIVE trimEnd(_)
trimEnd(s) ==
    IF s # <<>> /\ s[Len(s)] \in Whitespace
    THEN trimEnd(SubSeq(s, 1, Len(s) - 1))
    ELSE s

\* s.trim()
trim(s) == trimEnd(trimStart(s))

\* JSON.parse(s): the value when s is one JSON text (white space around it is
\* allowed), a SyntaxError otherwise.
JSONParse(s) ==
    LET t == trim(s)
    IN  IF Len(t) = 1 /\ DOMAIN t[1] = {"json"}
        THEN [ok |-> TRUE, value |-> t[1].json]
        ELSE [ok |-> FALSE, value |-> [ty |-> "undefined"]]

---------------------------------------------------------------------------
(* The values the model's JSON replies parse to *)

JsNull == [ty |-> "null"]
JsNumber == [ty |-> "number"]

NoPayload == [has |-> FALSE]

\* A JSON object with an "intent" member (or none) and no payload member.
Obj(intent) ==
    [ty |-> "object", intent |-> intent, transaction |-> NoPayload,
     account |-> NoPayload, reminder |-> NoPayload, question |-> Undef,
     report |-> NoPayload, period |-> Undef]

\* {"intent": "unrecognized"}
UnrecognizedValue == Obj(Str("unrecognized"))

TransactionPayload(type, amount, category) ==
    [has |-> TRUE, type |-> type, amount |-> amount, description |-> "d",
     category |-> category]

AccountPayload(name, balance) == [has |-> TRUE, name |-> name, balance |-> balance]

ReminderPayload(time, message) == [has |-> TRUE, time |-> time, message |-> message]

ReportPayload(type, period) == [has |-> TRUE, type |-> type, period |-> period]

AddTransactionValue(p) == [Obj(Str("add_transaction")) EXCEPT !.transaction = p]
UpdateBalanceValue(p) == [Obj(Str("update_balance")) EXCEPT !.account = p]
GetBalanceValue(p) == [Obj(Str("get_balance")) EXCEPT !.account = p]
SetReminderValue(p) == [Obj(Str("set_reminder")) EXCEPT !.reminder = p]
AskQuestionValue(q) == [Obj(Str("ask_question")) EXCEPT !.question = q]
GetReportValue(p) == [Obj(Str("get_report")) EXCEPT !.report = p]
GetTransactionListValue(p) == [Obj(Str("get_transaction_list")) EXCEPT !.report = p]

---------------------------------------------------------------------------
(* The access guard, bot.js:48-55 *)

NoSender == [present |-> FALSE, id |-> 0]
Sender(id) == [present |-> TRUE, id |-> id]

\* ctx.from?.id.toString()
userId(from) == IF from.present THEN Str(ToString(from.id)) ELSE Undef

\* The guard with an absent sender let through (!userId || userId === CHAT_ID).
AuthorizedOrAbsent(from) == ~userId(from).has \/ userId(from) = CHAT_ID

\* userId === CHAT_ID
Authorized(from) == userId(from) = CHAT_ID

---------------------------------------------------------------------------
(* The intent parser, bot.js:110-157 *)

\* What one generateContent call does: it rejects with an error of some type,
\* or it resolves to a response with (or without) a block reason, a candidate
\* list (absent, empty, or one candidate with a finish reason) and a body.
Rejects(err) ==
    [call |-> "reject", err |-> err, blockReason |-> FALSE,
     candidates |-> "absent", body |-> <<>>]

Replies(blockReason, candidates, body) ==
    [call |-> "reply", err |-> "", blockReason |-> blockReason,
     candidates |-> candidates, body |-> body]

\* What a function does: it throws, or it returns a value.
Throws == [kind |-> "throw", value |-> [ty |-> "undefined"]]
Returns(v) == [kind |-> "return", value |-> v]

\* bot.js:149-156  the catch block of getGeminiAnalysis
parserCatch(err) ==
    IF err = "SyntaxError" THEN Returns(UnrecognizedValue) ELSE Returns(JsNull)

\* bot.js:140-145
stripCodeFence(jsonText) ==
    IF includes(jsonText, FenceJson)
    THEN SplitFirst(SplitSecond(jsonText, FenceJson), Fence)
    ELSE IF startsWith(jsonText, Fence)
         THEN substring(jsonText, 3, Len(jsonText) - 3)
         ELSE jsonText

\* bot.js:110-157
getGeminiAnalysis(g) ==
    IF ~geminiModel THEN Throws
    ELSE IF g.call = "reject" THEN parserCatch(g.err)
    ELSE IF g.blockReason THEN Returns(UnrecognizedValue)
    \* !response.candidates is true and the warning reads candidates[0], or
    \* candidates[0] is undefined and the condition reads its finishReason:
    \* a TypeError either way.
    ELSE IF g.candidates \in {"absent", "empty"} THEN parserCatch("TypeError")
    ELSE IF g.candidates # "STOP" THEN Returns(UnrecognizedValue)
    ELSE IF g.body = <<>> THEN Returns(UnrecognizedValue)
    ELSE LET parsed == JSONParse(trim(stripCodeFence(g.body)))
         IN  IF parsed.ok THEN Returns(parsed.value) ELSE parserCatch("SyntaxError")

\* analysis && analysis.intent === tag
HasIntent(analysis, tag) ==
    analysis.ty = "object" /\ analysis.intent = Str(tag)

---------------------------------------------------------------------------
(* The write handlers, bot.js:161-205.  Each takes the payload and whether  *)
(* the store call fails, and gives whether it completed, the collection     *)
(* after it and what it returns.                                            *)

\* bot.js:166  transactionData.category || 'سایر'
resolveCategory(transactionData) == OrElse(transactionData.category, OtherCategory)

\* bot.js:162-170
newTransactionOf(transactionData) ==
    [type |-> transactionData.type,
     amount |-> transactionData.amount,
     description |-> transactionData.description,
     category |-> resolveCategory(transactionData),
     date |-> WallDay(now, 0),
     time |-> [hour |-> toLocaleString(now, TehranOffsetMin).hour,
               minute |-> toLocaleString(now, TehranOffsetMin).minute],
     createdAt |-> TimestampFromDate(now)]

\* The write going to one fixed document, which each call overwrites.
addTransactionInPlace(transactionData, storeFails) ==
    IF ~transactionData.has \/ storeFails
    THEN [ok |-> FALSE, transactions |-> transactions]
    ELSE [ok |-> TRUE,
          transactions |-> <<newTransactionOf(transactionData)>>,
          newTransaction |-> newTransactionOf(transactionData)]

\* bot.js:161-174
addTransaction(transactionData, storeFails) ==
    IF ~transactionData.has \/ storeFails
    THEN [ok |-> FALSE, transactions |-> transactions]
    ELSE [ok |-> TRUE,
          transactions |-> Append(transactions, newTransactionOf(transactionData)),
          newTransaction |-> newTransactionOf(transactionData)]

NoExtra == Undef

\* setDoc without { merge: true }: the document is replaced.
setDocReplace(docs, id, data) ==
    {d \in docs : d.id # id}
        \cup {[id |-> id, name |-> data.name, balance |-> data.balance,
               updatedAt |-> data.updatedAt, extra |-> NoExtra]}

\* A merge that never moves updatedAt back: the stamp of the document is the
\* later of the one it has and the one written.
setDocNewestStamp(docs, id, data) ==
    LET old == {d \in docs : d.id = id}
        merged == IF old = {}
                  THEN [id |-> id, name |-> data.name, balance |-> data.balance,
                        updatedAt |-> data.updatedAt, extra |-> NoExtra]
                  ELSE LET o == CHOOSE d \in old : TRUE
                       IN  [o EXCEPT
                              !.name = data.name, !.balance = data.balance,
                              !.updatedAt = IF TsLess(data.updatedAt, o.updatedAt)
                                            THEN o.updatedAt ELSE data.updatedAt]
    IN  (docs \ old) \cup {merged}

\* setDoc(doc(.., 'accounts', id), data, { merge: true }): the document's other
\* fields are kept; the document is created when there is none.
setDocMerge(docs, id, data) ==
    LET old == {d \in docs : d.id = id}
        merged == IF old = {}
                  THEN [id |-> id, name |-> data.name, balance |-> data.balance,
                        updatedAt |-> data.updatedAt, extra |-> NoExtra]
                  ELSE [(CHOOSE d \in old : TRUE) EXCEPT
                            !.name = data.name, !.balance = data.balance,
                            !.updatedAt = data.updatedAt]
    IN  (docs \ old) \cup {merged}

\* bot.js:176-184
updateAccountBalance(accountData, storeFails) ==
    IF ~accountData.has \/ storeFails
    THEN [ok |-> FALSE, accounts |-> accounts]
    ELSE [ok |-> TRUE,
          accounts |-> setDocMerge(accounts, accountData.name,
                          [name |-> accountData.name, balance |-> accountData.balance,
                           updatedAt |-> TimestampFromDate(now)]),
          updatedAccount |-> accountData]

Digit(c) ==
    CASE c = Ch("0") -> 0 [] c = Ch("1") -> 1 [] c = Ch("2") -> 2 [] c = Ch("3") -> 3
      [] c = Ch("4") -> 4 [] c = Ch("5") -> 5 [] c = Ch("6") -> 6 [] c = Ch("7") -> 7
      [] c = Ch("8") -> 8 [] c = Ch("9") -> 9

\* Number(s), for a string of decimal digits ("" is 0).
RECURSIVE Number(_)
Number(s) ==
    IF s = <<>> THEN 0
    ELSE 10 * Number(SubSeq(s, 1, Len(s) - 1)) + Digit(s[Len(s)])

Colon == <<Ch(":")>>

\* bot.js:188  time.split(':').map(Number)
parseTime(time) ==
    [hours |-> Number(SplitFirst(time, Colon)),
     minutes |-> Number(SplitSecond(time, Colon))]

\* bot.js:190  new Date(new Date().toLocaleString('en-US', {timeZone: 'Asia/Tehran'}))
nowInTehran == DateParseLocal(toLocaleString(now, TehranOffsetMin))

\* bot.js:191-196
reminderTimeOf(time) ==
    LET t == setHours(nowInTehran, parseTime(time).hours, parseTime(time).minutes)
    IN  IF t < nowInTehran THEN setDateNextDay(t) ELSE t

\* bot.js:198  addDoc gives the new document an id of its own: the least
\* number that no reminder in the store has and no run of the sweep still
\* holds in its snapshot
newReminderId ==
    LET held == UNION {{i.due[k].id : k \in 1..Len(i.due)} : i \in inflight}
        used == {reminders[k].id : k \in 1..Len(reminders)} \cup held
    IN  CHOOSE n \in 1..(Cardinality(used) + 1) :
            n \notin used /\ \A j \in 1..(n - 1) : j \in used

\* bot.js:186-205
setReminder(reminderData, storeFails) ==
    IF ~reminderData.has \/ storeFails
    THEN [ok |-> FALSE, reminders |-> reminders]
    ELSE [ok |-> TRUE,
          reminders |-> Append(reminders,
                          [id |-> newReminderId,
                           message |-> reminderData.message,
                           runAt |-> TimestampFromDate(reminderTimeOf(reminderData.time)),
                           isSent |-> FALSE])]

---------------------------------------------------------------------------
(* The question handler, bot.js:210-292 *)

\* What the environment does to the calls a handler makes after the parse:
\* the store write fails, a store read fails, the second model call fails.
Io(storeFails, readFails, answerFails) ==
    [storeFails |-> storeFails, readFails |-> readFails, answerFails |-> answerFails]

NoFailure == Io(FALSE, FALSE, FALSE)

\* bot.js:217-223  the transactions created in the last 30 days
recentTransactions ==
    LET thirtyDaysAgo ==
            [seconds |-> TimestampFromDate(now).seconds - 30 * (MsPerDay \div MsPerSec),
             nanoseconds |-> TimestampFromDate(now).nanoseconds]
    IN  SelectSeq(transactions, LAMBDA t : TsLeq(thirtyDaysAgo, t.createdAt))

\* The block left as it is when nothing was read.
contextDataNoPlaceholder ==
    (IF transactions # <<>> THEN <<"transactions">> ELSE <<>>)
    \o (IF accounts # {} THEN <<"accounts">> ELSE <<>>)
    \o (IF installments # {} THEN <<"installments">> ELSE <<>>)

\* bot.js:213-255  the context block: one section per non-empty record set, in
\* the order read, or the placeholder.
contextData ==
    LET sections ==
            (IF recentTransactions # <<>> THEN <<"transactions">> ELSE <<>>)
            \o (IF accounts # {} THEN <<"accounts">> ELSE <<>>)
            \o (IF installments # {} THEN <<"installments">> ELSE <<>>)
    IN  IF sections = <<>> THEN <<"no_data">> ELSE sections

\* The handler going on to the second model call after a failed read.
handleAskQuestionAnyway(question, io) ==
    IF io.answerFails
    THEN [text |-> AnalysisErrorText, context |-> <<>>, calls |-> 1]
    ELSE [text |-> AnswerText, context |-> <<>>, calls |-> 1]

\* bot.js:210-292
handleAskQuestion(question, io) ==
    IF io.readFails
    THEN [text |-> DbReadErrorText, context |-> <<>>, calls |-> 0]
    ELSE IF io.answerFails
         THEN [text |-> AnalysisErrorText, context |-> contextData, calls |-> 1]
         ELSE [text |-> AnswerText, context |-> contextData, calls |-> 1]

---------------------------------------------------------------------------
(* The text handler, bot.js:299-341 *)

\* What a delivery did: the collections after it, the replies sent in order,
\* the handlers that ran, the number of model calls made and the context
\* block given to the second call.
Effect(tx, acc, rem, replies, handlers, calls, context) ==
    [transactions |-> tx, accounts |-> acc, reminders |-> rem, replies |-> replies,
     handlers |-> handlers, calls |-> calls, context |-> context]

\* A delivery that only replies.
ReplyOnly(replies, handlers, calls) ==
    Effect(transactions, accounts, reminders, replies, handlers, calls, <<>>)

\* bot.js:337-340  the catch block of the text handler
serverError(handlers, calls) == ReplyOnly(<<ServerErrorText>>, handlers, calls)

\* bot.js:303-336  the body of the try block, given the parser's return value
dispatch(analysis, io) ==
    IF HasIntent(analysis, "add_transaction") THEN
        LET h == addTransaction(analysis.transaction, io.storeFails)
        IN  IF h.ok
            THEN Effect(h.transactions, accounts, reminders, <<AddedText>>,
                        <<"addTransaction">>, 1, <<>>)
            ELSE serverError(<<"addTransaction">>, 1)
    ELSE IF HasIntent(analysis, "update_balance") THEN
        LET h == updateAccountBalance(analysis.account, io.storeFails)
        IN  IF h.ok
            THEN Effect(transactions, h.accounts, reminders, <<BalanceUpdatedText>>,
                        <<"updateAccountBalance">>, 1, <<>>)
            ELSE serverError(<<"updateAccountBalance">>, 1)
    ELSE IF HasIntent(analysis, "set_reminder") THEN
        LET h == setReminder(analysis.reminder, io.storeFails)
        IN  IF h.ok
            THEN Effect(transactions, accounts, h.reminders, <<ReminderSetText>>,
                        <<"setReminder">>, 1, <<>>)
            ELSE serverError(<<"setReminder">>, 1)
    ELSE IF HasIntent(analysis, "ask_question") THEN
        LET h == handleAskQuestion(analysis.question, io)
        IN  Effect(transactions, accounts, reminders, <<PleaseWaitText, h.text>>,
                   <<"handleAskQuestion">>, 1 + h.calls, h.context)
    ELSE IF analysis = JsNull THEN ReplyOnly(<<AiErrorText>>, <<>>, 1)
    ELSE ReplyOnly(<<NotUnderstoodText>>, <<>>, 1)

\* bot.js:303-340  the text handler after the parser's call: r is what
\* getGeminiAnalysis did (it threw, or it returned a value)
onTextAfter(r, io) ==
    IF r.kind = "throw" THEN serverError(<<>>, 0) ELSE dispatch(r.value, io)

\* What the guard and the handler behind it do with one update.
Delivered(update, from, g, io, analysis, e) ==
    [update |-> update, from |-> from, g |-> g, io |-> io, analysis |-> analysis,
     replies |-> e.replies, handlers |-> e.handlers, calls |-> e.calls,
     context |-> e.context]

NotParsed == [kind |-> "none", value |-> [ty |-> "undefined"]]

NoUpdate ==
    Delivered("none", NoSender, Rejects(""), NoFailure, NotParsed,
              ReplyOnly(<<>>, <<>>, 0))

WithinBounds(e) == Len(e.transactions) <= MaxTx /\ Len(e.reminders) <= MaxRem

\* bot.js:48-55, 299-341  one text message through the guard and the handler
OnText(from, g, io) ==
    \E r \in {IF Authorized(from) THEN getGeminiAnalysis(g) ELSE NotParsed} :
    \E e \in {IF Authorized(from)
              THEN onTextAfter(r, io)
              ELSE ReplyOnly(<<NotAuthorizedText>>, <<>>, 0)} :
        /\ WithinBounds(e)
        /\ transactions' = e.transactions
        /\ accounts' = e.accounts
        /\ reminders' = e.reminders
        /\ last' = Delivered("text", from, g, io, r, e)
        /\ UNCHANGED <<tmpdir, geminiModel, serverOffset, now, installments, budgets,
                       inflight>>

\* bot.js:48-55, 297  /start through the guard and the start handler
OnStart(from) ==
    LET e == IF Authorized(from)
             THEN ReplyOnly(<<StartText>>, <<>>, 0)
             ELSE ReplyOnly(<<NotAuthorizedText>>, <<>>, 0)
    IN  /\ last' = Delivered("start", from, Rejects(""), NoFailure, NotParsed, e)
        /\ UNCHANGED <<tmpdir, geminiModel, serverOffset, now, transactions, accounts,
                       reminders, installments, budgets, inflight>>

---------------------------------------------------------------------------
(* The updates delivered to the webhook of bot.js *)

Operator == Sender(1)
Stranger == Sender(2)
Senders == {Operator, Stranger, NoSender}

ErrorTypes == {"FetchError", "AuthError", "QuotaError", "TypeError", "SyntaxError"}

\* The add_transaction payloads the model may send: nothing checks them.
AddPayloads ==
    {TransactionPayload("expense", 5, Str("khorak")),
     TransactionPayload("income", 7, Undef),
     TransactionPayload("expense", 5, Str("khodro")),
     TransactionPayload("transfer", 0 - 5, Str(""))}

\* "21:00"
NinePm == <<Ch("2"), Ch("1"), Ch(":"), Ch("0"), Ch("0")>>

\* The JSON values the model may send.
ReplyValues ==
    {JsNull, JsNumber, Obj(Undef), UnrecognizedValue,
     GetReportValue(ReportPayload("all", "today")),
     AddTransactionValue(NoPayload),
     UpdateBalanceValue(AccountPayload("melli", 5)),
     SetReminderValue(ReminderPayload(NinePm, "m")),
     AskQuestionValue(Str("q"))}
    \cup {AddTransactionValue(p) : p \in AddPayloads}

\* v alone, in a ```json fence and in a plain ``` fence.
Bare(v) == <<Json(v)>>
InJsonFence(v) == FenceJson \o <<Newline, Json(v), Newline>> \o Fence
InPlainFence(v) == Fence \o <<Newline, Json(v), Newline>> \o Fence

NotJson == <<Ch("h"), Ch("i")>>

ReplyBodies ==
    {Bare(v) : v \in ReplyValues}
    \cup {InJsonFence(UnrecognizedValue), InPlainFence(AskQuestionValue(Str("q"))),
          NotJson, InJsonFence(UnrecognizedValue) \o NotJson}

GeminiOutcomes ==
    {Rejects(err) : err \in ErrorTypes}
    \cup {Replies(TRUE, "STOP", Bare(UnrecognizedValue)),
          Replies(FALSE, "absent", <<>>),
          Replies(FALSE, "empty", <<>>),
          Replies(FALSE, "MAX_TOKENS", Bare(AskQuestionValue(Str("q")))),
          Replies(FALSE, "SAFETY", <<>>),
          Replies(FALSE, "STOP", <<>>)}
    \cup {Replies(FALSE, "STOP", body) : body \in ReplyBodies}

AskOutcome == Replies(FALSE, "STOP", Bare(AskQuestionValue(Str("q"))))

\* One well-formed reply for each handler that writes to the store.
WriteValues ==
    {AddTransactionValue(TransactionPayload("expense", 5, Str("khorak"))),
     UpdateBalanceValue(AccountPayload("melli", 5)),
     SetReminderValue(ReminderPayload(NinePm, "m"))}

\* Each outcome with every call after it succeeding, and the outcomes that
\* lead to a store write, a store read or a second model call with that call
\* failing.
OperatorDeliveries ==
    {[from |-> Operator, g |-> g, io |-> NoFailure] : g \in GeminiOutcomes}
    \cup {[from |-> Operator, g |-> Replies(FALSE, "STOP", Bare(v)),
           io |-> Io(TRUE, FALSE, FALSE)] : v \in WriteValues}
    \cup {[from |-> Operator, g |-> AskOutcome, io |-> io] :
            io \in {Io(FALSE, TRUE, FALSE), Io(FALSE, FALSE, TRUE)}}

\* What the other senders send: what would write, ask or fail for the operator.
OtherDeliveries ==
    {[from |-> from, g |-> g, io |-> NoFailure] :
        from \in {Stranger, NoSender},
        g \in {Rejects("FetchError"), AskOutcome}
              \cup {Replies(FALSE, "STOP", Bare(v)) : v \in WriteValues}}

Deliveries == OperatorDeliveries \cup OtherDeliveries

---------------------------------------------------------------------------
(* The bot of bot.js: every update goes through the guard to its handler *)

\* 15:00:00.000 in Tehran
SpecNow == At(10, 11, 30, 0, 0)

Init ==
    /\ geminiModel \in BOOLEAN
    /\ serverOffset = 0
    /\ now = SpecNow
    /\ transactions = <<>>
    /\ accounts = {}
    /\ reminders = <<>>
    /\ installments = {}
    /\ budgets = {}
    /\ inflight = {}
    /\ tmpdir = {}
    /\ last = NoUpdate

Next ==
    \/ \E d \in Deliveries : OnText(d.from, d.g, d.io)
    \/ \E from \in Senders : OnStart(from)

Spec == Init /\ [][Next]_vars

---------------------------------------------------------------------------
(* The webhook of bot.js with Telegram itself failing.  The Telegram calls  *)
(* of one update are numbered in the order the code makes them, and tg is  *)
(* the set of the calls Telegram rejects.  Telegraf hands a rejection that  *)
(* leaves the middleware to its error handler, which throws it again, so    *)
(* bot.handleUpdate rejects.                                                *)

\* bot.js:344-352  the response of the endpoint, given whether
\* bot.handleUpdate threw
webhookResponse(threw) ==
    IF threw THEN [status |-> 500, body |-> "Error"]
    ELSE [status |-> 200, body |-> "OK"]

\* The catch block sending nothing.
serverErrorUnanswered(e, sent, k, tg) ==
    [e EXCEPT !.replies = sent] @@ [threw |-> FALSE]

\* bot.js:337-340  the catch block of the text handler, its reply being the
\* Telegram call k, after the replies in sent went out
serverErrorReply(e, sent, k, tg) ==
    IF k \in tg
    THEN [e EXCEPT !.replies = sent] @@ [threw |-> TRUE]
    ELSE [e EXCEPT !.replies = Append(sent, ServerErrorText)] @@ [threw |-> FALSE]

\* bot.js:299-341  the text handler with Telegram's failures: call 1 is the
\* typing action, outside the try block; r is what the parser did
onText(r, io, tg) ==
    LET e == onTextAfter(r, io)
        raised == r.kind = "throw" \/ e.replies = <<ServerErrorText>>
    IN  IF 1 \in tg THEN ReplyOnly(<<>>, <<>>, 0) @@ [threw |-> TRUE]
        ELSE IF raised THEN serverErrorReply(e, <<>>, 2, tg)
        ELSE IF Len(e.replies) = 1 THEN
            IF 2 \in tg THEN serverErrorReply(e, <<>>, 3, tg)
            ELSE e @@ [threw |-> FALSE]
        ELSE IF 2 \in tg THEN serverErrorReply(ReplyOnly(<<>>, <<>>, 1), <<>>, 3, tg)
        ELSE IF 3 \in tg THEN serverErrorReply(e, <<PleaseWaitText>>, 4, tg)
        ELSE e @@ [threw |-> FALSE]

\* bot.js:48-55, 297  a middleware whose only Telegram call is one reply
onlyReply(text, tg) ==
    IF 1 \in tg THEN ReplyOnly(<<>>, <<>>, 0) @@ [threw |-> TRUE]
    ELSE ReplyOnly(<<text>>, <<>>, 0) @@ [threw |-> FALSE]

\* What the endpoint did with one update.
Responded(d, tg, e) ==
    d @@ [tg |-> tg, threw |-> e.threw, res |-> webhookResponse(e.threw)]

\* bot.js:344-352  one text message delivered to the endpoint
WebhookText(from, g, io, tg) ==
    \E r \in {IF Authorized(from) THEN getGeminiAnalysis(g) ELSE NotParsed} :
    \E e \in {IF Authorized(from) THEN onText(r, io, tg)
              ELSE onlyReply(NotAuthorizedText, tg)} :
        /\ WithinBounds(e)
        /\ transactions' = e.transactions
        /\ accounts' = e.accounts
        /\ reminders' = e.reminders
        /\ last' = Responded(Delivered("text", from, g, io, r, e), tg, e)
        /\ UNCHANGED <<tmpdir, geminiModel, serverOffset, now, installments, budgets,
                       inflight>>

\* bot.js:344-352  /start delivered to the endpoint
WebhookStart(from, tg) ==
    LET e == onlyReply(IF Authorized(from) THEN StartText ELSE NotAuthorizedText, tg)
    IN  /\ last' = Responded(Delivered("start", from, Rejects(""), NoFailure,
                                       NotParsed, e), tg, e)
        /\ UNCHANGED <<tmpdir, geminiModel, serverOffset, now, transactions, accounts,
                       reminders, installments, budgets, inflight>>

TgFailures == {{}, {1}, {2}, {3}, {2, 3}, {3, 4}}

\* The deliveries that add a transaction, ask a question or lose the parser's
\* call, with and without a failing call behind them.
WebhookDeliveries ==
    {d \in Deliveries :
        d.g \in {AskOutcome, Rejects("FetchError"),
                 Replies(FALSE, "STOP", Bare(AddTransactionValue(
                     TransactionPayload("expense", 5, Str("khorak")))))}}

InitWebhook == Init

NextWebhook ==
    \/ \E d \in WebhookDeliveries, tg \in TgFailures : WebhookText(d.from, d.g, d.io, tg)
    \/ \E from \in Senders, tg \in TgFailures : WebhookStart(from, tg)

SpecWebhook == InitWebhook /\ [][NextWebhook]_vars

---------------------------------------------------------------------------
(* The earlier revision of bot.js (part_000:1-485), which answers reports,  *)
(* lists and balances itself.  Its addTransaction, updateAccountBalance and *)
(* setReminder are those of bot.js, line for line.                          *)

DebugText == "debug_info"

SecPerDay == MsPerDay \div MsPerSec

\* The calendar of the model: day 0 is the 22nd of a month of 31 days, which
\* a month of 28 days follows.  The first and the last day of the month of
\* day d.
FirstOfMonth(d) == IF d < 10 THEN 0 - 21 ELSE IF d < 38 THEN 10 ELSE 38
LastOfMonth(d) == IF d < 10 THEN 9 ELSE IF d < 38 THEN 37 ELSE 68

\* The Timestamp of the server's local day d at s seconds after its midnight.
LocalTimestamp(d, s) ==
    [seconds |-> d * SecPerDay + s - serverOffset * 60, nanoseconds |-> 0]

\* part_000:59-82  (null, no date filter, is [has |-> FALSE])
getDateRange(period) ==
    LET today == WallDay(now, serverOffset)
        weekday == (today + 4) % 7
    IN  CASE period = "today" ->
                [has |-> TRUE, start |-> LocalTimestamp(today, 0),
                 end |-> LocalTimestamp(today + 1, 0)]
          [] period = "month" ->
                [has |-> TRUE, start |-> LocalTimestamp(FirstOfMonth(today), 0),
                 end |-> LocalTimestamp(LastOfMonth(today), SecPerDay - 1)]
          [] period = "week" ->
                [has |-> TRUE, start |-> LocalTimestamp(today - weekday, 0),
                 end |-> LocalTimestamp(today - weekday + 7, 0)]
          [] OTHER -> [has |-> FALSE]

\* part_000:135-175  the parser of this revision parses the body as it is.
getGeminiAnalysis_part000(g) ==
    IF ~geminiModel THEN Throws
    ELSE IF g.call = "reject" THEN parserCatch(g.err)
    ELSE IF g.blockReason THEN Returns(UnrecognizedValue)
    ELSE IF g.candidates \in {"absent", "empty"} THEN parserCatch("TypeError")
    ELSE IF g.candidates # "STOP" THEN Returns(UnrecognizedValue)
    ELSE IF g.body = <<>> THEN Returns(UnrecognizedValue)
    ELSE LET parsed == JSONParse(g.body)
         IN  IF parsed.ok THEN Returns(parsed.value) ELSE parserCatch("SyntaxError")

\* part_000:198-208, 213-221  the transactions the query of getReport and of
\* getTransactionList selects, in insertion order
selectTransactions(type, period) ==
    LET inPeriod(t) ==
            CASE period = "today" ->
                    /\ TsLeq(getDateRange("today").start, t.createdAt)
                    /\ TsLess(t.createdAt, getDateRange("today").end)
              [] period = "month" ->
                    /\ TsLeq(getDateRange("month").start, t.createdAt)
                    /\ TsLeq(t.createdAt, getDateRange("month").end)
              [] OTHER -> TRUE
        ofType(t) ==
            CASE type = "expense" -> t.type = "expense"
              [] type = "income" -> t.type = "income"
              [] OTHER -> TRUE
    IN  SelectSeq(transactions, LAMBDA t : inPeriod(t) /\ ofType(t))

\* part_000:225-232  the fold of getReport over the snapshot
RECURSIVE totalAmount(_, _)
totalAmount(type, snapshot) ==
    IF snapshot = <<>> THEN 0
    ELSE LET data == snapshot[Len(snapshot)]
             rest == totalAmount(type, SubSeq(snapshot, 1, Len(snapshot) - 1))
         IN  IF type = "all"
             THEN rest + (IF data.type = "income" THEN data.amount ELSE 0 - data.amount)
             ELSE rest + data.amount

\* part_000:194-235
getReport(reportRequest, readFails) ==
    IF ~reportRequest.has \/ readFails
    THEN [ok |-> FALSE]
    ELSE [ok |-> TRUE,
          message |->
            [kind |-> "report", type |-> reportRequest.type,
             period |-> reportRequest.period,
             total |-> totalAmount(reportRequest.type,
                          selectTransactions(reportRequest.type, reportRequest.period))]]

\* The snapshot in the order of insertion: the oldest first.
OldestFirst(s) == s

RECURSIVE Reverse(_)
Reverse(s) == IF s = <<>> THEN <<>> ELSE Append(Reverse(Tail(s)), Head(s))

\* part_000:237-275  (orderBy createdAt desc: the latest insertion first)
getTransactionList(reportRequest, readFails) ==
    IF ~reportRequest.has \/ readFails
    THEN [ok |-> FALSE]
    ELSE LET snapshot ==
                Reverse(selectTransactions(reportRequest.type, reportRequest.period))
             line(t) == [description |-> t.description, category |-> t.category,
                         sign |-> IF t.type = "expense" THEN "-" ELSE "+",
                         amount |-> t.amount]
         IN  [ok |-> TRUE,
              message |->
                IF snapshot = <<>>
                THEN [kind |-> "none_found", lines |-> <<>>]
                ELSE [kind |-> "list",
                      lines |-> [i \in 1..Len(snapshot) |-> line(snapshot[i])]]]

\* The number of documents where their total is due.
CountAccounts(docs) == Cardinality(docs)

RECURSIVE SumBalances(_)
SumBalances(docs) ==
    IF docs = {} THEN 0
    ELSE LET d == CHOOSE x \in docs : TRUE
         IN  d.balance + SumBalances(docs \ {d})

\* part_000:288-315
getAccountBalances(accountRequest, readFails) ==
    IF ~accountRequest.has \/ readFails
    THEN [ok |-> FALSE]
    ELSE IF accountRequest.name = "all"
    THEN [ok |-> TRUE,
          message |->
            IF accounts = {}
            THEN [kind |-> "no_accounts"]
            ELSE [kind |-> "all",
                  lines |-> {[id |-> d.id, name |-> d.name, balance |-> d.balance] :
                                d \in accounts},
                  total |-> SumBalances(accounts)]]
    ELSE LET docSnap == {d \in accounts : d.id = accountRequest.name}
         IN  [ok |-> TRUE,
              message |->
                IF docSnap = {}
                THEN [kind |-> "not_found", name |-> accountRequest.name]
                ELSE LET data == CHOOSE d \in docSnap : TRUE
                     IN  [kind |-> "one", name |-> data.name, balance |-> data.balance]]

\* part_000:340-413
getFinancialAnalysis(period, io) ==
    LET dateRange ==
            IF period = Str("week")
            THEN [start |-> [seconds |-> TimestampFromDate(now).seconds - 7 * SecPerDay,
                             nanoseconds |-> TimestampFromDate(now).nanoseconds],
                  end |-> TimestampFromDate(now)]
            ELSE IF period = Str("today") THEN getDateRange("today")
            ELSE getDateRange("month")
        snapshot ==
            SelectSeq(transactions,
                      LAMBDA t : /\ TsLeq(dateRange.start, t.createdAt)
                                 /\ TsLeq(t.createdAt, dateRange.end))
    IN  IF io.readFails THEN [ok |-> FALSE]
        ELSE IF snapshot = <<>>
        THEN [ok |-> TRUE, message |-> [kind |-> "nothing_to_analyse"], calls |-> 0]
        ELSE IF io.answerFails
        THEN [ok |-> TRUE, message |-> [kind |-> AnalysisErrorText], calls |-> 1]
        ELSE [ok |-> TRUE, message |-> [kind |-> AnswerText], calls |-> 1]

NoMessage == [kind |-> "none"]

\* An effect together with the message the handler composed for its reply.
Told(e, message) == e @@ [message |-> message]

\* part_000:431-467  the dispatch of the try block, after the debug reply
dispatch_part000(analysis, io) ==
    IF HasIntent(analysis, "add_transaction") THEN
        Told(dispatch(analysis, io), NoMessage)
    ELSE IF HasIntent(analysis, "get_report") THEN
        LET h == getReport(analysis.report, io.readFails)
        IN  IF h.ok
            THEN Told(ReplyOnly(<<"report">>, <<"getReport">>, 1), h.message)
            ELSE Told(serverError(<<"getReport">>, 1), NoMessage)
    ELSE IF HasIntent(analysis, "get_transaction_list") THEN
        LET h == getTransactionList(analysis.report, io.readFails)
        IN  IF h.ok
            THEN Told(ReplyOnly(<<"list">>, <<"getTransactionList">>, 1), h.message)
            ELSE Told(serverError(<<"getTransactionList">>, 1), NoMessage)
    ELSE IF HasIntent(analysis, "update_balance") THEN
        Told(dispatch(analysis, io), NoMessage)
    ELSE IF HasIntent(analysis, "get_balance") THEN
        LET h == getAccountBalances(analysis.account, io.readFails)
        IN  IF h.ok
            THEN Told(ReplyOnly(<<"balance">>, <<"getAccountBalances">>, 1), h.message)
            ELSE Told(serverError(<<"getAccountBalances">>, 1), NoMessage)
    ELSE IF HasIntent(analysis, "get_analysis") THEN
        LET h == getFinancialAnalysis(analysis.period, io)
        IN  IF h.ok
            THEN Told(ReplyOnly(<<PleaseWaitText, "analysis">>,
                                <<"getFinancialAnalysis">>, 1 + h.calls), h.message)
            ELSE Told(ReplyOnly(<<PleaseWaitText, ServerErrorText>>,
                                <<"getFinancialAnalysis">>, 1), NoMessage)
    ELSE IF HasIntent(analysis, "set_reminder") THEN
        Told(dispatch(analysis, io), NoMessage)
    ELSE IF analysis = JsNull THEN Told(ReplyOnly(<<AiErrorText>>, <<>>, 1), NoMessage)
    ELSE Told(ReplyOnly(<<NotUnderstoodText>>, <<>>, 1), NoMessage)

\* part_000:424-472  the text handler after the parser's call: the debug
\* reply comes before the dispatch
onTextAfter_part000(r, io) ==
    IF r.kind = "throw" THEN Told(serverError(<<>>, 0), NoMessage)
    ELSE LET e == dispatch_part000(r.value, io)
         IN  [e EXCEPT !.replies = <<DebugText>> \o @]

\* part_000:47-54, 420-473  one text message through the guard and the handler
OnText_part000(from, g, io) ==
    \E r \in {IF Authorized(from) THEN getGeminiAnalysis_part000(g) ELSE NotParsed} :
    \E e \in {IF Authorized(from)
              THEN onTextAfter_part000(r, io)
              ELSE Told(ReplyOnly(<<NotAuthorizedText>>, <<>>, 0), NoMessage)} :
        /\ WithinBounds(e)
        /\ transactions' = e.transactions
        /\ accounts' = e.accounts
        /\ reminders' = e.reminders
        /\ last' = Told(Delivered("text", from, g, io, r, e), e.message)
        /\ UNCHANGED <<tmpdir, geminiModel, serverOffset, now, installments, budgets,
                       inflight>>

\* The clock moves on to the instant t.
Tick(t) ==
    /\ now < t
    /\ now' = t
    /\ UNCHANGED <<tmpdir, geminiModel, serverOffset, transactions, accounts, reminders,
                   installments, budgets, inflight, last>>

---------------------------------------------------------------------------
(* The accounts of the earlier revision: balances are set and asked for *)

AccountNames == {"melli", "all"}
Balances == {5, 9}

\* The account documents there may be before the bot first runs: documents
\* at accounts/{name}, which may carry a field the bot does not write.
InitialAccounts ==
    {{}} \cup
    {{[id |-> n, name |-> n, balance |-> 1,
       updatedAt |-> TimestampFromDate(At(9, 8, 0, 0, 0)), extra |-> Str("icon")]} :
        n \in AccountNames}

AccountDeliveries ==
    {[from |-> Operator,
      g |-> Replies(FALSE, "STOP", Bare(UpdateBalanceValue(AccountPayload(n, b)))),
      io |-> io] :
        n \in AccountNames, b \in Balances, io \in {NoFailure, Io(TRUE, FALSE, FALSE)}}
    \cup {[from |-> Operator,
           g |-> Replies(FALSE, "STOP", Bare(GetBalanceValue(AccountPayload(n, 0)))),
           io |-> io] :
            n \in AccountNames \cup {"saman"}, io \in {NoFailure, Io(FALSE, TRUE, FALSE)}}
    \cup {[from |-> Operator, g |-> g, io |-> NoFailure] :
            g \in {Rejects("FetchError"),
                   Replies(FALSE, "STOP", Bare(UpdateBalanceValue(NoPayload))),
                   Replies(FALSE, "STOP", Bare(GetBalanceValue(NoPayload)))}}
    \cup {[from |-> Stranger,
           g |-> Replies(FALSE, "STOP", Bare(UpdateBalanceValue(AccountPayload("melli", 9)))),
           io |-> NoFailure]}

AccountInstants == {At(10, 12, 0, 0, 0), At(10, 13, 0, 0, 0)}

InitAccounts ==
    /\ geminiModel = TRUE
    /\ serverOffset = 0
    /\ now = SpecNow
    /\ transactions = <<>>
    /\ accounts \in InitialAccounts
    /\ reminders = <<>>
    /\ installments = {}
    /\ budgets = {}
    /\ inflight = {}
    /\ tmpdir = {}
    /\ last = Told(NoUpdate, NoMessage)

NextAccounts ==
    \/ \E d \in AccountDeliveries : OnText_part000(d.from, d.g, d.io)
    \/ \E t \in AccountInstants : Tick(t)

SpecAccounts == InitAccounts /\ [][NextAccounts]_vars

---------------------------------------------------------------------------
(* The reminders of bot.js: set at several instants, on servers of several *)
(* time zones                                                              *)

\* Minutes east of UTC of the server's zone: UTC, Asia/Tehran, Asia/Tokyo.
ServerOffsets == {0, TehranOffsetMin, 9 * 60}

\* In Tehran: 15:00:00.000, 15:00:00.500, 15:00:30.000, 20:00 and 22:00 of
\* day 10.
ReminderInstants ==
    {SpecNow, At(10, 11, 30, 0, 500), At(10, 11, 30, 30, 0),
     At(10, 16, 30, 0, 0), At(10, 18, 30, 0, 0)}

\* "HH:MM" of the digits h1 h2 m1 m2
HHMM(h1, h2, m1, m2) == <<Ch(h1), Ch(h2), Ch(":"), Ch(m1), Ch(m2)>>

ReminderTimes ==
    {HHMM("1", "5", "0", "0"), NinePm, HHMM("1", "0", "0", "0"),
     HHMM("0", "0", "0", "5")}

ReminderDeliveries ==
    {[from |-> Operator,
      g |-> Replies(FALSE, "STOP", Bare(SetReminderValue(ReminderPayload(time, "m")))),
      io |-> NoFailure] : time \in ReminderTimes}
    \cup {[from |-> Operator,
           g |-> Replies(FALSE, "STOP", Bare(SetReminderValue(ReminderPayload(NinePm, "m")))),
           io |-> Io(TRUE, FALSE, FALSE)],
          [from |-> Operator,
           g |-> Replies(FALSE, "STOP", Bare(SetReminderValue(NoPayload))),
           io |-> NoFailure],
          [from |-> Stranger,
           g |-> Replies(FALSE, "STOP", Bare(SetReminderValue(ReminderPayload(NinePm, "m")))),
           io |-> NoFailure]}

InitReminder ==
    /\ geminiModel = TRUE
    /\ serverOffset \in ServerOffsets
    /\ now = SpecNow
    /\ transactions = <<>>
    /\ accounts = {}
    /\ reminders = <<>>
    /\ installments = {}
    /\ budgets = {}
    /\ inflight = {}
    /\ tmpdir = {}
    /\ last = NoUpdate

NextReminder ==
    \/ \E d \in ReminderDeliveries : OnText(d.from, d.g, d.io)
    \/ \E t \in ReminderInstants : Tick(t)

SpecReminder == InitReminder /\ [][NextReminder]_vars

---------------------------------------------------------------------------
(* The reports of the earlier revision: transactions are added and summed *)
(* around the end of a day and of a month                                 *)

\* On day 9, the last of its month: 20:00, 20:29:59.500 and 21:00 UTC (in
\* Tehran 23:30, 23:59:59.500, and 00:30 of day 10); on day 10: 12:00 UTC.
ReportInstants ==
    {At(9, 20, 0, 0, 0), At(9, 20, 29, 59, 500), At(9, 21, 0, 0, 0),
     At(10, 12, 0, 0, 0)}

ReportPayloads ==
    {TransactionPayload("expense", 5, Str("khorak")),
     TransactionPayload("income", 7, Undef),
     TransactionPayload("transfer", 0 - 5, Str(""))}

ReportTypes == {"all", "expense", "income"}
ReportPeriods == {"today", "month", "all_time"}

ReportDeliveries ==
    {[from |-> Operator,
      g |-> Replies(FALSE, "STOP", Bare(AddTransactionValue(p))),
      io |-> NoFailure] : p \in ReportPayloads}
    \cup {[from |-> Operator,
           g |-> Replies(FALSE, "STOP", Bare(GetReportValue(ReportPayload(type, period)))),
           io |-> NoFailure] : type \in ReportTypes, period \in ReportPeriods}
    \cup {[from |-> Operator,
           g |-> Replies(FALSE, "STOP",
                         Bare(GetTransactionListValue(ReportPayload(type, period)))),
           io |-> NoFailure] : type \in ReportTypes, period \in {"today", "month"}}
    \cup {[from |-> Operator,
           g |-> Replies(FALSE, "STOP", Bare(GetReportValue(ReportPayload("all", "today")))),
           io |-> Io(FALSE, TRUE, FALSE)],
          [from |-> Operator,
           g |-> Replies(FALSE, "STOP", Bare(GetReportValue(NoPayload))),
           io |-> NoFailure]}

InitReport ==
    /\ geminiModel = TRUE
    /\ serverOffset \in {0, TehranOffsetMin}
    /\ now = At(9, 20, 0, 0, 0)
    /\ transactions = <<>>
    /\ accounts = {}
    /\ reminders = <<>>
    /\ installments = {}
    /\ budgets = {}
    /\ inflight = {}
    /\ tmpdir = {}
    /\ last = Told(NoUpdate, NoMessage)

NextReport ==
    \/ \E d \in ReportDeliveries : OnText_part000(d.from, d.g, d.io)
    \/ \E t \in ReportInstants : Tick(t)

SpecReport == InitReport /\ [][NextReport]_vars

---------------------------------------------------------------------------
(* The sweep job of cron.js:1-206, which a schedule runs every five minutes, *)
(* next to the bot.  The two tasks of the daily summary only read the store; *)
(* whether they found anything to say is an input of the run here.           *)

\* cron.js:52-56
isTimeForDailySummary ==
    LET w == toLocaleString(now, TehranOffsetMin)
    IN  w.hour = 9 /\ w.minute < 5

\* cron.js:136-140  the reminders the query selects: not sent and due
isDue(r) == r.isSent = FALSE /\ TsLeq(r.runAt, TimestampFromDate(now))

\* cron.js:131-163  what the task returns and leaves in the collection; with
\* the read failing, or the first deleteDoc, it throws and nothing is deleted
checkCustomReminders(fails) ==
    LET due == SelectSeq(reminders, isDue)
    IN  IF fails = "read" \/ (fails = "delete" /\ due # <<>>)
        THEN [ok |-> FALSE, messages |-> <<>>, reminders |-> reminders]
        ELSE [ok |-> TRUE,
              messages |-> [i \in 1..Len(due) |-> due[i].message],
              reminders |-> SelectSeq(reminders, LAMBDA r : ~isDue(r))]

\* cron.js:168-206  one run of the job: fails names the call that fails, if
\* any, and warned tells whether the daily summary found something to say
Sweep(fails, warned) ==
    LET c == checkCustomReminders(fails)
        summary == c.ok /\ isTimeForDailySummary /\ warned
        sends == c.ok /\ (c.messages # <<>> \/ summary)
        threw == ~c.ok \/ (sends /\ fails = "send")
    IN  /\ reminders' = c.reminders
        /\ last' = [update |-> "sweep", fails |-> fails, summary |-> summary,
                    handlers |-> <<>>, replies |-> <<>>,
                    sent |-> IF sends /\ ~threw THEN c.messages ELSE <<>>,
                    status |-> IF threw THEN 500 ELSE 200]
        /\ UNCHANGED <<tmpdir, geminiModel, serverOffset, now, transactions, accounts,
                       installments, budgets, inflight>>

SweepFailures == {"none", "read", "delete", "send"}

\* 21:00 UTC of the day of SpecNow, and 09:02 in Tehran on the next day
SweepInstants == {At(10, 21, 0, 0, 0), At(11, 5, 32, 0, 0)}

\* What the operator sends next to the sweep: additions that succeed and
\* fail, the other writes, a question, and the queries of the earlier revision.
SweepDeliveries ==
    {[from |-> Operator, g |-> Replies(FALSE, "STOP", Bare(v)), io |-> io] :
        v \in {AddTransactionValue(TransactionPayload("expense", 5, Str("khorak"))),
               AddTransactionValue(NoPayload),
               UpdateBalanceValue(AccountPayload("melli", 5)),
               SetReminderValue(ReminderPayload(NinePm, "m")),
               AskQuestionValue(Str("q"))},
        io \in {NoFailure, Io(TRUE, FALSE, FALSE)}}

SweepQueries ==
    {[from |-> Operator, g |-> Replies(FALSE, "STOP", Bare(v)), io |-> NoFailure] :
        v \in {GetReportValue(ReportPayload("all", "month")),
               GetTransactionListValue(ReportPayload("all", "month")),
               GetBalanceValue(AccountPayload("all", 0))}}

InitSweep ==
    /\ geminiModel = TRUE
    /\ serverOffset = 0
    /\ now = SpecNow
    /\ transactions = <<>>
    /\ accounts = {}
    /\ reminders = <<>>
    /\ installments \in {{}, {[name |-> "vam", day |-> 25, amount |-> 5]}}
    /\ budgets \in {{}, {[category |-> "khorak", amount |-> 10]}}
    /\ inflight = {}
    /\ tmpdir = {}
    /\ last = NoUpdate

NextSweep ==
    \/ \E d \in SweepDeliveries : OnText(d.from, d.g, d.io)
    \/ \E d \in SweepQueries : OnText_part000(d.from, d.g, d.io)
    \/ \E fails \in SweepFailures, warned \in BOOLEAN : Sweep(fails, warned)
    \/ \E t \in SweepInstants : Tick(t)

SpecSweep == InitSweep /\ [][NextSweep]_vars

---------------------------------------------------------------------------
(* Deliveries handled at once.  Each delivery is its own invocation of the   *)
(* webhook; an invocation that writes builds its document, hands it to the  *)
(* store and waits, and the store applies the writes one at a time in the   *)
(* order they land, which need not be the order they were made.             *)

MaxInflight == 2

\* bot.js:162-172, 177-182  the write the handler hands to the store: the
\* document is built, with its timestamp, before the call is awaited
storeCall(analysis) ==
    IF HasIntent(analysis, "add_transaction") /\ analysis.transaction.has
    THEN [collection |-> "transactions", id |-> "",
          data |-> newTransactionOf(analysis.transaction)]
    ELSE IF HasIntent(analysis, "update_balance") /\ analysis.account.has
    THEN [collection |-> "accounts", id |-> analysis.account.name,
          data |-> [name |-> analysis.account.name,
                    balance |-> analysis.account.balance,
                    updatedAt |-> TimestampFromDate(now)]]
    ELSE [collection |-> "none"]

\* bot.js:172, 178-182  the store applying one write: add() makes a new
\* document, setDoc with merge writes the document of the given id
landed(write) ==
    IF write.collection = "transactions"
    THEN [transactions |-> Append(transactions, write.data), accounts |-> accounts]
    ELSE [transactions |-> transactions,
          accounts |-> setDocMerge(accounts, write.id, write.data)]

\* The write w is to the document the write v is to and carries another
\* balance.
Overtakes(w, v) ==
    /\ w.collection = "accounts" /\ v.collection = "accounts" /\ w.id = v.id
    /\ w.data.balance # v.data.balance

\* bot.js:299-310  a text of the operator up to the store call of its handler;
\* n numbers the invocations in flight
Begin(from, g) ==
    \E r \in {getGeminiAnalysis(g)} :
    \E n \in 1..MaxInflight :
        /\ Authorized(from)
        /\ r.kind = "return" /\ storeCall(r.value).collection # "none"
        /\ n \notin {i.n : i \in inflight}
        /\ \A k \in 1..(n - 1) : k \in {i.n : i \in inflight}
        /\ storeCall(r.value).collection = "transactions" =>
                Len(transactions)
                  + Cardinality({i \in inflight : i.write.collection = "transactions"})
                    < MaxTx
        /\ inflight' = inflight \cup {[n |-> n, from |-> from, g |-> g, analysis |-> r,
                                       write |-> storeCall(r.value),
                                       overtaken |-> FALSE]}
        /\ UNCHANGED <<tmpdir, geminiModel, serverOffset, now, transactions, accounts,
                       reminders, installments, budgets, last>>

\* bot.js:172-174, 182-183, 307-315, 337-340  the store call of the invocation
\* i returns: the write has landed, or it failed; the handler replies.  The
\* invocations still waiting that this write overtakes are marked.
Land(i, storeFails) ==
    LET s == landed(i.write)
        h == IF i.write.collection = "transactions"
             THEN <<"addTransaction">> ELSE <<"updateAccountBalance">>
        e == IF storeFails THEN serverError(h, 1)
             ELSE Effect(s.transactions, s.accounts, reminders,
                         IF i.write.collection = "transactions"
                         THEN <<AddedText>> ELSE <<BalanceUpdatedText>>, h, 1, <<>>)
    IN  /\ i \in inflight
        /\ transactions' = e.transactions
        /\ accounts' = e.accounts
        /\ inflight' = {IF ~storeFails /\ Overtakes(i.write, o.write)
                         THEN [o EXCEPT !.overtaken = TRUE] ELSE o :
                            o \in inflight \ {i}}
        /\ last' = Delivered("text", i.from, i.g, Io(storeFails, FALSE, FALSE),
                             i.analysis, e)
                        @@ [write |-> i.write, overtaken |-> i.overtaken]
        /\ UNCHANGED <<tmpdir, geminiModel, serverOffset, now, reminders, installments,
                       budgets>>

\* What the operator sends at once: an addition, and two balances of one account.
ConcurrentDeliveries ==
    {[from |-> Operator, g |-> Replies(FALSE, "STOP", Bare(v))] :
        v \in {AddTransactionValue(TransactionPayload("expense", 5, Str("khorak"))),
               UpdateBalanceValue(AccountPayload("melli", 5)),
               UpdateBalanceValue(AccountPayload("melli", 9))}}

\* One second after SpecNow
ConcurrentInstants == {SpecNow + MsPerSec}

InitConcurrent ==
    /\ geminiModel = TRUE
    /\ serverOffset = 0
    /\ now = SpecNow
    /\ transactions = <<>>
    /\ accounts = {}
    /\ reminders = <<>>
    /\ installments = {}
    /\ budgets = {}
    /\ inflight = {}
    /\ tmpdir = {}
    /\ last = NoUpdate

NextConcurrent ==
    \/ \E d \in ConcurrentDeliveries : Begin(d.from, d.g)
    \/ \E i \in inflight, storeFails \in BOOLEAN : Land(i, storeFails)
    \/ \E t \in ConcurrentInstants : Tick(t)

SpecConcurrent == InitConcurrent /\ [][NextConcurrent]_vars

---------------------------------------------------------------------------
(* Runs of the sweep that overlap.  The schedule starts a run every five   *)
(* minutes whether or not the one before has ended, and each run is its    *)
(* own invocation: it reads the due reminders, then deletes them one by    *)
(* one, then sends its message.                                            *)

\* cron.js:131-141  a run up to the answer of its query: the snapshot of the
\* due reminders it goes through; n numbers the runs in flight.  With the
\* read failing the run ends here with 500.
SweepQuery(n, readFails) ==
    /\ n \in 1..MaxInflight
    /\ n \notin {i.n : i \in inflight}
    /\ \A k \in 1..(n - 1) : k \in {i.n : i \in inflight}
    /\ IF readFails
       THEN /\ inflight' = inflight
            /\ last' = [update |-> "sweep", fails |-> "read", summary |-> FALSE,
                        handlers |-> <<>>, replies |-> <<>>, sent |-> <<>>,
                        status |-> 500]
       ELSE /\ inflight' = inflight \cup {[n |-> n, due |-> SelectSeq(reminders, isDue)]}
            /\ last' = last
    /\ UNCHANGED <<tmpdir, geminiModel, serverOffset, now, transactions, accounts,
                   reminders, installments, budgets>>

\* cron.js:148-160  deleteDoc for each document of the snapshot; deleting a
\* document that is no longer there succeeds and changes nothing
deleteDocs(docs, snapshot) ==
    SelectSeq(docs, LAMBDA r : r.id \notin {snapshot[k].id : k \in 1..Len(snapshot)})

\* cron.js:143-206  the rest of the run i: the deletes, the daily summary
\* when it is its time, and the send; fails names the call that fails
SweepRest(i, fails, warned) ==
    LET deleted == ~(fails = "delete" /\ i.due # <<>>)
        messages == [k \in 1..Len(i.due) |-> i.due[k].message]
        summary == deleted /\ isTimeForDailySummary /\ warned
        sends == deleted /\ (messages # <<>> \/ summary)
        threw == ~deleted \/ (sends /\ fails = "send")
    IN  /\ i \in inflight
        /\ reminders' = IF deleted THEN deleteDocs(reminders, i.due) ELSE reminders
        /\ inflight' = inflight \ {i}
        /\ last' = [update |-> "sweep", fails |-> fails, summary |-> summary,
                    handlers |-> <<>>, replies |-> <<>>,
                    sent |-> IF sends /\ ~threw THEN messages ELSE <<>>,
                    status |-> IF threw THEN 500 ELSE 200]
        /\ UNCHANGED <<tmpdir, geminiModel, serverOffset, now, transactions, accounts,
                       installments, budgets>>

RunDeliveries ==
    {[from |-> Operator,
      g |-> Replies(FALSE, "STOP", Bare(SetReminderValue(ReminderPayload(NinePm, "m")))),
      io |-> io] : io \in {NoFailure, Io(TRUE, FALSE, FALSE)}}

InitRuns ==
    /\ geminiModel = TRUE
    /\ serverOffset = 0
    /\ now = SpecNow
    /\ transactions = <<>>
    /\ accounts = {}
    /\ reminders = <<>>
    /\ installments = {}
    /\ budgets = {}
    /\ inflight = {}
    /\ tmpdir = {}
    /\ last = NoUpdate

NextRuns ==
    \/ \E d \in RunDeliveries : OnText(d.from, d.g, d.io)
    \/ \E n \in 1..MaxInflight, readFails \in BOOLEAN : SweepQuery(n, readFails)
    \/ \E i \in inflight, fails \in {"none", "delete", "send"}, warned \in BOOLEAN :
            SweepRest(i, fails, warned)
    \/ \E t \in SweepInstants : Tick(t)

SpecRuns == InitRuns /\ [][NextRuns]_vars

---------------------------------------------------------------------------
(* Questions asked over a store that already has records: a transaction   *)
(* older than the window of 30 days or exactly at its edge, an account, an *)
(* installment.                                                            *)

\* A transaction created days before day 0, at the time of day of SpecNow.
EarlierTransaction(days) ==
    [type |-> "expense", amount |-> 5, description |-> "d", category |-> "khorak",
     date |-> 0 - days, time |-> [hour |-> 15, minute |-> 0],
     createdAt |-> [seconds |-> (SpecNow \div MsPerSec) - (10 + days) * SecPerDay,
                    nanoseconds |-> 0]]

ContextDeliveries ==
    {[from |-> Operator, g |-> AskOutcome, io |-> io] :
        io \in {NoFailure, Io(FALSE, TRUE, FALSE), Io(FALSE, FALSE, TRUE)}}
    \cup {[from |-> Operator, g |-> Replies(FALSE, "STOP", Bare(v)), io |-> NoFailure] :
            v \in {AddTransactionValue(TransactionPayload("expense", 5, Str("khorak"))),
                   UpdateBalanceValue(AccountPayload("melli", 5))}}

\* One second and one day after SpecNow
ContextInstants == {SpecNow + MsPerSec, SpecNow + MsPerDay}

InitContext ==
    /\ geminiModel = TRUE
    /\ serverOffset = 0
    /\ now = SpecNow
    /\ transactions \in {<<>>, <<EarlierTransaction(21)>>, <<EarlierTransaction(20)>>}
    /\ accounts = {}
    /\ reminders = <<>>
    /\ installments \in {{}, {[name |-> "vam", day |-> 25, amount |-> 5]}}
    /\ budgets = {}
    /\ inflight = {}
    /\ tmpdir = {}
    /\ last = NoUpdate

NextContext ==
    \/ \E d \in ContextDeliveries : OnText(d.from, d.g, d.io)
    \/ \E t \in ContextInstants : Tick(t)

SpecContext == InitContext /\ [][NextContext]_vars

---------------------------------------------------------------------------
(* The daily summary of cron.js:32-128, 168-206 with its two tasks: the     *)
(* installments compared with the Persian day of the month, the budgets     *)
(* compared with the month's expenses.  Day 0 of the model is 22 January   *)
(* 2026, which is 2 Bahman 1404; Dey and Bahman have 30 days.               *)

\* The Persian date of (Tehran) day d, for the days from 1 Dey 1404 on.
PersianDate(d) ==
    IF d < 0 - 1 THEN [year |-> 1404, month |-> 10, day |-> d + 32, days |-> 30]
    ELSE IF d < 29 THEN [year |-> 1404, month |-> 11, day |-> d + 2, days |-> 30]
    ELSE [year |-> 1404, month |-> 12, day |-> d - 28, days |-> 29]

\* cron.js:32-39
getPersianDay == PersianDate(WallDay(now, TehranOffsetMin)).day

\* cron.js:41-48  "YYYY/MM", as the year and the month
getMonthYearString ==
    LET p == PersianDate(WallDay(now, TehranOffsetMin))
    IN  [year |-> p.year, month |-> p.month]

\* The text of a date, as the code units a comparison of strings goes
\* through: the year, a separator, the month, a separator, the day, with
\* the numbers padded to a fixed width.  bot.js:167 writes the UTC day d as
\* "YYYY-MM-DD"; cron.js:103-104 write `${currentMonth}/DD`.
toISODateString(d) ==
    LET hyphen == 45
    IN  IF d < 0 - 21 THEN <<2025, hyphen, 12, hyphen, d + 53>>
        ELSE IF d < 10 THEN <<2026, hyphen, 1, hyphen, d + 22>>
        ELSE IF d < 38 THEN <<2026, hyphen, 2, hyphen, d - 9>>
        ELSE <<2026, hyphen, 3, hyphen, d - 37>>

monthDayString(currentMonth, dd) ==
    LET slash == 47
    IN  <<currentMonth.year, slash, currentMonth.month, slash, dd>>

\* a <= b for two strings of that form (the order of where('date', '<=', b))
StringLeq(a, b) ==
    \/ a = b
    \/ \E i \in 1..5 : a[i] < b[i] /\ \A j \in 1..(i - 1) : a[j] = b[j]

\* cron.js:60-85  the installments the task writes a message for, each with
\* the days remaining it states
checkInstallments(todayDayNumber) ==
    {[name |-> i.name, daysRemaining |-> i.day - todayDayNumber] :
        i \in {x \in installments :
                  x.day - todayDayNumber >= 0 /\ x.day - todayDayNumber <= 3}}

\* cron.js:88-128  the budgets the task writes a message for, each with the
\* amount spent it found
checkBudgets ==
    LET currentMonth == getMonthYearString
        selected(t) ==
            /\ t.type = "expense"
            /\ StringLeq(monthDayString(currentMonth, 1), toISODateString(t.date))
            /\ StringLeq(toISODateString(t.date), monthDayString(currentMonth, 31))
        expenseSnapshot == SelectSeq(transactions, selected)
        spent(c) ==
            totalAmount("expense",
                        SelectSeq(expenseSnapshot, LAMBDA t : t.category = c))
        \* (spent / budget.amount) * 100 >= 90, with 0 / 0 being NaN
        over(b) ==
            IF b.amount = 0 THEN spent(b.category) > 0
            ELSE spent(b.category) * 100 >= 90 * b.amount
    IN  {[category |-> b.category, spent |-> spent(b.category)] :
            b \in {x \in budgets : over(x)}}

\* cron.js:168-206  one run of the job with the tasks of the daily summary
\* done; fails names the call that fails, if any
SweepDaily(fails) ==
    LET c == checkCustomReminders(fails)
        daily == c.ok /\ isTimeForDailySummary
        installmentMessages ==
            IF daily THEN checkInstallments(getPersianDay) ELSE {}
        budgetMessages == IF daily THEN checkBudgets ELSE {}
        sends == c.ok /\ (c.messages # <<>> \/ installmentMessages # {}
                            \/ budgetMessages # {})
        threw == ~c.ok \/ (sends /\ fails = "send")
    IN  /\ reminders' = c.reminders
        /\ last' = [update |-> "sweep", fails |-> fails, daily |-> daily,
                    today |-> getPersianDay,
                    installmentMessages |-> installmentMessages,
                    budgetMessages |-> budgetMessages,
                    handlers |-> <<>>, replies |-> <<>>,
                    sent |-> IF sends /\ ~threw THEN c.messages ELSE <<>>,
                    status |-> IF threw THEN 500 ELSE 200]
        /\ UNCHANGED <<tmpdir, geminiModel, serverOffset, now, transactions, accounts,
                       installments, budgets, inflight>>

\* 09:01 in Tehran on 28 Dey, on 30 Dey and on 1 Bahman, and 12:00 UTC of
\* 30 Dey
SummaryInstants ==
    {At(0 - 4, 5, 31, 0, 0), At(0 - 2, 5, 31, 0, 0), At(0 - 2, 12, 0, 0, 0),
     At(0 - 1, 5, 31, 0, 0)}

SummaryDeliveries ==
    {[from |-> Operator, g |-> Replies(FALSE, "STOP", Bare(v)), io |-> NoFailure] :
        v \in {AddTransactionValue(TransactionPayload("expense", 5, Str("khorak"))),
               AddTransactionValue(TransactionPayload("income", 5, Str("sayer")))}}

SummaryInstallments ==
    {[name |-> "vam", day |-> 1, amount |-> 5],
     [name |-> "ejare", day |-> 30, amount |-> 5]}

InitSummary ==
    /\ geminiModel = TRUE
    /\ serverOffset = 0
    /\ now = At(0 - 5, 5, 31, 0, 0)
    /\ transactions = <<>>
    /\ accounts = {}
    /\ reminders = <<>>
    /\ installments \in SUBSET SummaryInstallments
    /\ budgets \in {{}, {[category |-> "khorak", amount |-> 10]}}
    /\ inflight = {}
    /\ tmpdir = {}
    /\ last = NoUpdate

NextSummary ==
    \/ \E d \in SummaryDeliveries : OnText(d.from, d.g, d.io)
    \/ \E fails \in {"none", "send"} : SweepDaily(fails)
    \/ \E t \in SummaryInstants : Tick(t)

SpecSummary == InitSummary /\ [][NextSummary]_vars

---------------------------------------------------------------------------
(* The report endpoint of send-report.js:15-68.  A request is its method   *)
(* and its body; failing names the call of the run that rejects, if any.   *)

ReportFileNames == {"", "report-1.html", "report-2.html"}

ReportRequests ==
    [method : {"POST", "GET"}, htmlContent : {"", "html"},
     fileName : ReportFileNames]

ReportCallFailures == {"none", "writeFile", "sendDocument", "unlink"}

Reported(req, configured, failing, written, status) ==
    [update |-> "report", req |-> req, configured |-> configured,
     failing |-> failing, written |-> written, status |-> status]

sendReport(req, configured, failing) ==
    /\ UNCHANGED <<geminiModel, serverOffset, now, transactions, accounts,
                   reminders, installments, budgets, inflight>>
    /\ IF req.method # "POST"
       THEN /\ tmpdir' = tmpdir
            /\ last' = Reported(req, configured, "none", FALSE, 405)
       ELSE IF ~configured
       THEN /\ tmpdir' = tmpdir
            /\ last' = Reported(req, configured, "none", FALSE, 500)
       ELSE IF req.htmlContent = "" \/ req.fileName = ""
       THEN /\ tmpdir' = tmpdir
            /\ last' = Reported(req, configured, "none", FALSE, 400)
       ELSE IF failing = "writeFile"
       THEN /\ tmpdir' = tmpdir
            /\ last' = Reported(req, configured, failing, FALSE, 500)
       ELSE IF failing \in {"sendDocument", "unlink"}
       THEN /\ tmpdir' = tmpdir \cup {req.fileName}
            /\ last' = Reported(req, configured, failing, TRUE, 500)
       ELSE /\ tmpdir' = tmpdir \ {req.fileName}
            /\ last' = Reported(req, configured, failing, TRUE, 200)

InitSendReport == Init

NextSendReport ==
    \E req \in ReportRequests, configured \in BOOLEAN,
       failing \in ReportCallFailures :
        sendReport(req, configured, failing)

SpecSendReport == InitSendReport /\ [][NextSendReport]_vars

---------------------------------------------------------------------------
(* Reply bodies in code fences: one JSON text alone, in a ```json fence or *)
(* in a plain ``` fence, with white space before and after the fence.      *)

FenceMargins == {<<>>, <<Newline>>, <<Space, Newline>>}

FenceValues ==
    {UnrecognizedValue, AddTransactionValue(NoPayload),
     UpdateBalanceValue(AccountPayload("melli", 5)),
     SetReminderValue(ReminderPayload(NinePm, "m")),
     AskQuestionValue(Str("q"))}

Wrapped(open, v, before, after) ==
    before \o open \o <<Newline, Json(v), Newline>> \o Fence \o after

FencedBodies ==
    {Bare(v) : v \in FenceValues}
    \cup {Wrapped(open, v, before, after) :
            open \in {FenceJson, Fence}, v \in FenceValues,
            before \in FenceMargins, after \in FenceMargins}

FenceDeliveries ==
    {[from |-> Operator, g |-> Replies(FALSE, "STOP", body), io |-> NoFailure] :
        body \in FencedBodies}

InitFence == Init

NextFence == \E d \in FenceDeliveries : OnText(d.from, d.g, d.io)

SpecFence == InitFence /\ [][NextFence]_vars

---------------------------------------------------------------------------
(* Claims about the guard, the parser and the transaction handler *)

\* The sender is the operator the bot is configured for.
IsOperator(from) == from = Operator

\* The last update was a text message of the operator that reached the parser
\* with the model initialized.
ParsedText == last.update = "text" /\ IsOperator(last.from) /\ geminiModel

\* C1: an update (text or /start) whose sender is not the operator, or has no
\* sender, makes no intent-parse call, runs no handler, leaves the store as it
\* was and is answered with the 'not authorized' message alone.
C1_AccessGuard ==
    [][~IsOperator(last'.from) =>
            /\ store' = store
            /\ last'.replies = <<NotAuthorizedText>>
            /\ last'.calls = 0
            /\ last'.handlers = <<>>
            /\ last'.analysis = NotParsed]_vars

\* A text with no sender is turned away when the store already holds a
\* transaction, an account and a reminder.
C1_Witness ==
    /\ last.update = "text"
    /\ last.from = NoSender
    /\ last.g \in {Replies(FALSE, "STOP", Bare(v)) : v \in WriteValues}
    /\ last.replies = <<NotAuthorizedText>>
    /\ transactions # <<>>
    /\ accounts # {}

\* The objects of the schema the parser's prompt asks for (bot.js:79-105).
IsSchemaIntent(v) ==
    /\ v.ty = "object"
    /\ v.intent.has
    /\ CASE v.intent.v = "add_transaction" -> v.transaction.has
         [] v.intent.v = "update_balance" -> v.account.has
         [] v.intent.v = "set_reminder" -> v.reminder.has
         [] v.intent.v = "ask_question" -> v.question.has
         [] v.intent.v = "unrecognized" -> TRUE
         [] OTHER -> FALSE

\* The call returned a reply, and the reply is blocked, has a non-STOP finish
\* reason or no candidate list, is empty, is no JSON after fence stripping, or
\* is JSON that is no intent object of the schema.
FaultyReply(g) ==
    /\ g.call = "reply"
    /\ \/ g.blockReason
       \/ g.candidates # "STOP"
       \/ g.body = <<>>
       \/ ~JSONParse(trim(stripCodeFence(g.body))).ok
       \/ ~IsSchemaIntent(JSONParse(trim(stripCodeFence(g.body))).value)

\* C2: a faulty reply of the model is resolved as Unrecognized: the parser
\* neither throws nor returns null, and the user gets the 'not understood'
\* reply.
C2_FaultyReplyIsUnrecognized ==
    (ParsedText /\ FaultyReply(last.g)) =>
        /\ last.analysis.kind = "return"
        /\ last.analysis.value # JsNull
        /\ last.replies = <<NotUnderstoodText>>

\* C3: a model call that rejects, with an error of any type, makes the parser
\* return null, and the user gets the system-failure reply.
C3_CallFailureIsTransportFailure ==
    (ParsedText /\ last.g.call = "reject") =>
        /\ last.analysis = Returns(JsNull)
        /\ last.replies = <<AiErrorText>>

\* The last update stored a transaction through addTransaction.
AddedTransaction ==
    /\ last.handlers = <<"addTransaction">>
    /\ last.replies = <<AddedText>>
    /\ transactions # <<>>

\* The category the claim expects for a payload: the model's when it is in the
\* enumeration of the payload's kind, 'other' otherwise.
ExpectedCategory(p) ==
    IF /\ p.category.has
       /\ p.type \in DOMAIN VALID_CATEGORIES
       /\ p.category.v \in VALID_CATEGORIES[p.type]
    THEN p.category.v
    ELSE OtherCategory

\* C4: the stored category is the model's category when that is in the
\* enumeration of the kind and 'other' in every other case, and the stored
\* amount is the parsed amount.
C4_StoredCategoryAndAmount ==
    AddedTransaction =>
        LET p == last.analysis.value.transaction
            t == transactions[Len(transactions)]
        IN  /\ t.category = ExpectedCategory(p)
            /\ t.amount = p.amount

\* C5: every stored transaction has kind expense or income and an amount
\* greater than 0.
C5_StoredKindAndAmount ==
    \A i \in 1..Len(transactions) :
        /\ transactions[i].type \in Kinds
        /\ transactions[i].amount > 0

---------------------------------------------------------------------------
(* Claims about the accounts *)

\* What a GetBalance for the name n tells of the account named n: the
\* balances its reply gives for that account.
ReportedFor(n) ==
    LET m == getAccountBalances(AccountPayload(n, 0), FALSE).message
    IN  CASE m.kind = "one" -> IF m.name = n THEN {m.balance} ELSE {}
          [] m.kind = "all" -> {l.balance : l \in {x \in m.lines : x.name = n}}
          [] OTHER -> {}

\* This step is an UpdateBalance call that returned.
UpdatesBalance ==
    /\ now' = now
    /\ last'.handlers = <<"updateAccountBalance">>
    /\ last'.replies = <<DebugText, BalanceUpdatedText>>

OneAccountPerName == \A d1, d2 \in accounts : d1.name = d2.name => d1 = d2

UpdateBalanceStep ==
    IF UpdatesBalance
    THEN \A n \in AccountNames, b \in Balances :
            last'.analysis.value.account = AccountPayload(n, b) =>
                /\ ReportedFor(n)' = {b}
                /\ \A d \in accounts :
                        d.name = n =>
                            \E d2 \in accounts' : d2.name = n /\ d2.extra = d.extra
                /\ {d \in accounts' : d.name # n} = {d \in accounts : d.name # n}
    ELSE accounts' = accounts

\* C6: UpdateBalance is a last-write-wins merge upsert.  A call for the name
\* n that returns leaves an account of which a GetBalance for n reports the
\* call's balance, keeps the account's fields other than name, balance and
\* updated instant, and leaves every other account as it was; no other step
\* changes an account, so the balance reported for n is that of the most
\* recent call for n; and there is never more than one account per name.
C6_LastWriteWinsMergeUpsert == []OneAccountPerName /\ [][UpdateBalanceStep]_vars

\* A GetBalance for "melli" answers 9 after the account, which had balance 1
\* and a field of its own, was set to 5 and then to 9; the field is kept.
C6_Witness ==
    /\ last.handlers = <<"getAccountBalances">>
    /\ last.message = [kind |-> "one", name |-> "melli", balance |-> 9]
    /\ \E d \in accounts :
            d.name = "melli" /\ d.balance = 9 /\ d.extra = Str("icon")
    /\ now > SpecNow

---------------------------------------------------------------------------
(* Claims about the reminders *)

\* This step is a SetReminder call that stored its reminder.
CreatesReminder == now' = now /\ Len(reminders') = Len(reminders) + 1

\* The requested time of this step's call, in ms after midnight.
RequestedMs ==
    LET p == parseTime(last'.analysis.value.reminder.time)
    IN  p.hours * MsPerHour + p.minutes * MsPerMin

\* C7: SetReminder day choice.  When the requested HH:MM is earlier than the
\* clock time of Asia/Tehran at the call, the stored instant lies on the next
\* calendar day of Asia/Tehran; when it is later, on the current one.
C7_DayChoice ==
    [][CreatesReminder =>
        LET runAt == TsMillis(reminders'[Len(reminders')].runAt)
            today == WallDay(now, TehranOffsetMin)
        IN  /\ RequestedMs < WallMs(now, TehranOffsetMin) =>
                    WallDay(runAt, TehranOffsetMin) = today + 1
            /\ RequestedMs > WallMs(now, TehranOffsetMin) =>
                    WallDay(runAt, TehranOffsetMin) = today]_vars

\* C8: SetReminder round trip.  Whatever the server's zone, the stored
\* instant, read as a wall clock of Asia/Tehran, shows the requested HH:MM:00
\* exactly, so that the sweep's "runAt <= now" first holds when the clock of
\* Tehran reaches HH:MM.
C8_RoundTrip ==
    [][CreatesReminder =>
        LET runAt == TsMillis(reminders'[Len(reminders')].runAt)
        IN  WallMs(runAt, TehranOffsetMin) = RequestedMs]_vars

\* C9: every reminder is created unsent and with a run instant strictly after
\* the instant of its creation.
C9_CreatedUnsentInFuture ==
    [][CreatesReminder =>
        /\ reminders'[Len(reminders')].isSent = FALSE
        /\ TsLess(TimestampFromDate(now), reminders'[Len(reminders')].runAt)]_vars

---------------------------------------------------------------------------
(* Claims about the reports *)

\* The sum of the amounts of the transactions of s whose kind is k.
RECURSIVE SumOfKind(_, _)
SumOfKind(s, k) ==
    IF s = <<>> THEN 0
    ELSE (IF Head(s).type = k THEN Head(s).amount ELSE 0) + SumOfKind(Tail(s), k)

\* This step is a GetReport call that returned.
Reports == now' = now /\ last'.handlers = <<"getReport">> /\ last'.message.kind = "report"

\* C10: GetReport totals.  Over the transactions of the selected window, the
\* kind "all" reports the sum of the income amounts minus the sum of the
\* expense amounts, and the kind "expense" (resp. "income") the sum of the
\* amounts of exactly the expense (resp. income) transactions.
C10_ReportTotals ==
    [][Reports =>
        \A period \in ReportPeriods :
            last'.message.period = period =>
                LET window == selectTransactions("all", period)
                    type == last'.message.type
                IN  last'.message.total =
                        IF type = "all"
                        THEN SumOfKind(window, "income") - SumOfKind(window, "expense")
                        ELSE SumOfKind(window, type)]_vars

\* The transaction t was created in the period, taken on the calendar of
\* Asia/Tehran at the current instant.
InTehranWindow(t, period) ==
    LET created == WallDay(TsMillis(t.createdAt), TehranOffsetMin)
        today == WallDay(now, TehranOffsetMin)
    IN  CASE period = "today" -> created = today
          [] period = "month" ->
                FirstOfMonth(today) <= created /\ created <= LastOfMonth(today)
          [] OTHER -> TRUE

\* C11: period windows.  At every instant the query for 'today' selects
\* exactly the transactions created from the midnight of Asia/Tehran to the
\* next, the query for 'month' exactly those created on a day of the current
\* month of Asia/Tehran, and the query for 'all_time' every transaction.
C11_PeriodWindows ==
    \A period \in ReportPeriods :
        selectTransactions("all", period)
            = SelectSeq(transactions, LAMBDA t : InTehranWindow(t, period))

\* This step is a GetTransactionList call that returned.
ListsTransactions ==
    /\ now' = now
    /\ last'.handlers = <<"getTransactionList">>
    /\ last'.replies = <<DebugText, "list">>

\* The transactions of the period's window whose kind the filter admits, in
\* the order of insertion.
Matching(type, period) ==
    SelectSeq(selectTransactions("all", period),
              LAMBDA t : type \in Kinds => t.type = type)

\* The lines are those of the transactions of m, one each, a later
\* transaction never below an earlier one.
ListsMostRecentFirst(lines, m) ==
    /\ Len(lines) = Len(m)
    /\ \E f \in [1..Len(m) -> 1..Len(m)] :
        /\ \A i, j \in 1..Len(m) : f[i] = f[j] => i = j
        /\ \A i \in 1..Len(m) :
            /\ lines[i].description = m[f[i]].description
            /\ lines[i].category = m[f[i]].category
            /\ lines[i].amount = m[f[i]].amount
            /\ m[f[i]].type = "expense" => lines[i].sign = "-"
            /\ m[f[i]].type = "income" => lines[i].sign = "+"
        /\ \A i, j \in 1..Len(m) :
            i < j => TsLeq(m[f[j]].createdAt, m[f[i]].createdAt)

\* C12: GetTransactionList answers 'no transactions found', and no list, when
\* no transaction matches the kind and the period; otherwise it answers a list
\* with exactly one line per matching transaction, the most recent first, the
\* amount of an expense signed '-' and that of an income '+'.
C12_TransactionList ==
    [][ListsTransactions =>
        \A type \in ReportTypes, period \in ReportPeriods :
            last'.analysis.value.report = ReportPayload(type, period) =>
                IF Matching(type, period) = <<>>
                THEN last'.message = [kind |-> "none_found", lines |-> <<>>]
                ELSE /\ last'.message.kind = "list"
                     /\ ListsMostRecentFirst(last'.message.lines,
                                             Matching(type, period))]_vars

\* A list of two lines, the income added at a later instant above the expense.
C12_Witness ==
    /\ last.handlers = <<"getTransactionList">>
    /\ last.message.kind = "list"
    /\ Len(last.message.lines) = 2
    /\ last.message.lines[1].sign = "+"
    /\ last.message.lines[2].sign = "-"
    /\ Len(transactions) = 2
    /\ TsLess(transactions[1].createdAt, transactions[2].createdAt)
    /\ transactions[1].type = "expense"

---------------------------------------------------------------------------
(* Claims about the balance query *)

\* This step is a GetBalance call that returned.
AnswersBalance ==
    /\ now' = now
    /\ last'.handlers = <<"getAccountBalances">>
    /\ last'.replies = <<DebugText, "balance">>

\* The sum, over the names ns, of the balances of the accounts so named.
RECURSIVE TotalOver(_)
TotalOver(ns) ==
    IF ns = {} THEN 0
    ELSE LET n == CHOOSE x \in ns : TRUE
             named == {d \in accounts : d.name = n}
         IN  (IF named = {} THEN 0 ELSE (CHOOSE d \in named : TRUE).balance)
                + TotalOver(ns \ {n})

\* C13: GetBalance.  For the name 'all' and at least one account the reply
\* lists every account once and the sum of all balances; for 'all' and no
\* account it is the guidance message, without a total; for any other name it
\* is the balance of the account of that name, or 'not found' when there is
\* none; the store is as it was.
C13_GetBalance ==
    [][AnswersBalance =>
        /\ store' = store
        /\ \A n \in AccountNames \cup {"saman"} :
            last'.analysis.value.account.name = n =>
                LET named == {d \in accounts : d.name = n}
                IN  CASE n = "all" /\ accounts = {} ->
                            last'.message = [kind |-> "no_accounts"]
                      [] n = "all" /\ accounts # {} ->
                            /\ last'.message.kind = "all"
                            /\ Cardinality(last'.message.lines) = Cardinality(accounts)
                            /\ \A d \in accounts :
                                \E l \in last'.message.lines :
                                    l.name = d.name /\ l.balance = d.balance
                            /\ last'.message.total
                                    = TotalOver({d.name : d \in accounts})
                      [] n # "all" /\ named = {} ->
                            last'.message = [kind |-> "not_found", name |-> n]
                      [] OTHER ->
                            \E d \in named :
                                last'.message = [kind |-> "one", name |-> n,
                                                 balance |-> d.balance]]_vars

\* The query for 'all' lists two accounts, of balances 5 and 9, and their
\* total 14.
C13_Witness ==
    /\ last.handlers = <<"getAccountBalances">>
    /\ last.message.kind = "all"
    /\ {l.balance : l \in last.message.lines} = {5, 9}
    /\ last.message.total = 14

---------------------------------------------------------------------------
(* Claims about the dispatch and the replies of bot.js *)

\* The handler (or the context assembler) of each tag of the intent union.
HandlerOf ==
    [add_transaction |-> "addTransaction", update_balance |-> "updateAccountBalance",
     get_balance |-> "getAccountBalances", get_report |-> "getReport",
     get_transaction_list |-> "getTransactionList",
     get_analysis |-> "getFinancialAnalysis", set_reminder |-> "setReminder",
     ask_question |-> "handleAskQuestion"]

\* The parser returned an object with an intent tag for the operator's text.
ParsedTag ==
    /\ ParsedText
    /\ last.analysis.kind = "return"
    /\ last.analysis.value.ty = "object"
    /\ last.analysis.value.intent.has

\* C14: for every tag of the intent union the dispatcher runs exactly the
\* handler of that tag, and the 'not understood' reply is for the tag
\* 'unrecognized' alone.
C14_Dispatch ==
    ParsedTag =>
        LET tag == last.analysis.value.intent.v
        IN  tag \in DOMAIN HandlerOf =>
                /\ last.handlers = <<HandlerOf[tag]>>
                /\ last.replies # <<NotUnderstoodText>>

\* The last update was a text message of the operator.
AuthorizedText == last.update = "text" /\ IsOperator(last.from)

\* The replies that tell of a failure of the system.
SystemFailureTexts == {AiErrorText, ServerErrorText, DbReadErrorText, AnalysisErrorText}

\* The handler the last update ran met an exception: it was given no payload,
\* or a call it made to the store or to the model failed.
HandlerRaised ==
    /\ last.analysis.kind = "return"
    /\ last.handlers # <<>>
    /\ LET v == last.analysis.value
           h == last.handlers[1]
       IN  CASE h = "addTransaction" -> ~v.transaction.has \/ last.io.storeFails
             [] h = "updateAccountBalance" -> ~v.account.has \/ last.io.storeFails
             [] h = "setReminder" -> ~v.reminder.has \/ last.io.storeFails
             [] h = "handleAskQuestion" -> last.io.readFails \/ last.io.answerFails
             [] OTHER -> FALSE

\* C15: a text of the operator gets a system-failure reply only if the parser
\* returned null or a handler met an exception; a parse that succeeds with a
\* handler that completes, and an 'unrecognized' result, never get one.
C15_SystemFailureReply ==
    AuthorizedText =>
        ((\E i \in 1..Len(last.replies) : last.replies[i] \in SystemFailureTexts)
            => (last.analysis = Returns(JsNull) \/ HandlerRaised))

\* The reply that ends the last update.
TerminalReply == last.replies[Len(last.replies)]

\* A call the last update made failed outright: the parser's call to the
\* model (or the model client is missing), the store call of the handler that
\* ran, or the second call to the model.
FailedCall ==
    \/ ~geminiModel
    \/ last.g.call = "reject"
    \/ /\ last.analysis.kind = "return"
       /\ last.handlers # <<>>
       /\ LET v == last.analysis.value
              h == last.handlers[1]
          IN  CASE h = "addTransaction" -> v.transaction.has /\ last.io.storeFails
                [] h = "updateAccountBalance" -> v.account.has /\ last.io.storeFails
                [] h = "setReminder" -> v.reminder.has /\ last.io.storeFails
                [] h = "handleAskQuestion" -> last.io.readFails \/ last.io.answerFails
                [] OTHER -> FALSE

\* C16: the reply classes are told apart.  A text of another sender ends with
\* the 'not authorized' reply; a text of the operator for which a model call or
\* a store call failed ends with a system-failure reply, never with the 'not
\* understood' reply or a success reply; an 'unrecognized' result ends with the
\* 'not understood' reply; and these texts differ from each other and from
\* the success replies.
C16_ReplyClasses ==
    /\ NotAuthorizedText \notin SystemFailureTexts \cup {NotUnderstoodText}
    /\ NotUnderstoodText \notin SystemFailureTexts
    /\ {AddedText, BalanceUpdatedText, ReminderSetText, AnswerText}
            \cap (SystemFailureTexts \cup {NotAuthorizedText, NotUnderstoodText}) = {}
    /\ last.update = "text" =>
        /\ ~IsOperator(last.from) => TerminalReply = NotAuthorizedText
        /\ (IsOperator(last.from) /\ FailedCall) => TerminalReply \in SystemFailureTexts
        /\ (IsOperator(last.from) /\ ~FailedCall
                /\ last.analysis = Returns(UnrecognizedValue)) =>
                    TerminalReply = NotUnderstoodText

\* This step is the handling of a text of the operator.
HandlesText == last'.update = "text" /\ IsOperator(last'.from)

SuccessTexts == {AddedText, BalanceUpdatedText, ReminderSetText, AnswerText}

\* C17: single attempt, single terminal reply.  For a text of the operator
\* the model is called at most once to parse and at most once to answer, at
\* most one handler runs and at most one document is written; nothing is
\* attempted after the first failure; and the replies end with exactly one
\* terminal reply (handled, not understood or system failure), before which
\* there is at most the 'please wait' notice of a question.
C17_SingleAttemptSingleReply ==
    [][HandlesText =>
        LET r == last'.replies
            parsed == last'.analysis.kind = "return" /\ last'.analysis.value # JsNull
        IN  /\ last'.calls <= 2
            /\ Len(last'.handlers) <= 1
            /\ last'.calls = 2 =>
                    last'.handlers = <<"handleAskQuestion">> /\ ~last'.io.readFails
            /\ {i \in 1..Len(r) : r[i] # PleaseWaitText} = {Len(r)}
            /\ r[Len(r)] \in SuccessTexts \cup {NotUnderstoodText} \cup SystemFailureTexts
            /\ Len(r) > 1 => last'.handlers = <<"handleAskQuestion">>
            /\ ~parsed => last'.handlers = <<>> /\ last'.calls <= 1 /\ store' = store
            /\ r[Len(r)] \in SystemFailureTexts => store' = store
            /\ Len(transactions') <= Len(transactions) + 1
            /\ Len(reminders') <= Len(reminders) + 1
            /\ (IF transactions' # transactions THEN 1 ELSE 0)
                    + (IF accounts' # accounts THEN 1 ELSE 0)
                    + (IF reminders' # reminders THEN 1 ELSE 0) <= 1]_vars

\* A question whose store read failed: the notice, then the failure reply,
\* and no second call to the model.
C17_Witness ==
    /\ last.handlers = <<"handleAskQuestion">>
    /\ last.io.readFails
    /\ last.calls = 1
    /\ last.replies = <<PleaseWaitText, DbReadErrorText>>

---------------------------------------------------------------------------
(* C18 *)

\* The model call, a store call or a handler failed while the operator's
\* text was processed.
ProcessingFailed ==
    /\ last.update = "text" /\ Authorized(last.from)
    /\ \/ last.analysis.kind = "throw"
       \/ last.analysis = Returns(JsNull)
       \/ last.handlers \in {<<"addTransaction">>, <<"updateAccountBalance">>,
                             <<"setReminder">>} /\ last.io.storeFails
       \/ last.handlers = <<"handleAskQuestion">>
            /\ (last.io.readFails \/ last.io.answerFails)

---------------------------------------------------------------------------
(* C19 *)

\* Every document of the sequence a is in b at its place, as it was.
KeepsAll(a, b) == Len(a) <= Len(b) /\ \A i \in 1..Len(a) : b[i] = a[i]

\* This step is a delivery that ran AddTransaction (the clock stands still
\* while an update is handled, and a sweep runs no handler).
AddTransactionStep == now' = now /\ last'.handlers = <<"addTransaction">>

\* C19: no step of the bot's handlers or of the sweep job changes or removes
\* a transaction there is, and only AddTransaction adds one; an AddTransaction
\* that succeeds adds exactly one transaction and leaves the accounts,
\* installments, budgets and reminders as they were, and one that fails
\* changes nothing in the store.
C19_TransactionsAppendOnly ==
    [][/\ KeepsAll(transactions, transactions')
       /\ Len(transactions') <= Len(transactions) + 1
       /\ transactions' # transactions =>
            /\ AddTransactionStep
            /\ last'.replies = <<AddedText>>
       /\ AddTransactionStep /\ last'.replies = <<AddedText>> =>
            /\ Len(transactions') = Len(transactions) + 1
            /\ UNCHANGED <<accounts, installments, budgets, reminders>>
       /\ AddTransactionStep /\ last'.replies # <<AddedText>> =>
            /\ last'.replies = <<ServerErrorText>>
            /\ store' = store]_vars

\* A second transaction was added next to accounts, budgets and installments,
\* after a sweep, and the first one is still there.
C19_Witness ==
    /\ Len(transactions) = 2
    /\ last.handlers = <<"addTransaction">> /\ last.replies = <<AddedText>>
    /\ TsLess(transactions[1].createdAt, transactions[2].createdAt)
    /\ accounts # {} /\ budgets # {} /\ installments # {}

---------------------------------------------------------------------------
(* C20 *)

\* The store call of the invocation i returned in this step.
Returned(i) == i.n \notin {o.n : o \in inflight'}

\* The accounts of the id of the write w
AccountsOf(docs, w) == {d \in docs : d.id = w.id}

\* C20: with invocations in flight at once and their writes landing in any
\* order, an AddTransaction whose write lands adds its own transaction after
\* all those there are and changes none of them; an UpdateBalance whose write
\* lands leaves exactly one account of its name, and that account's name,
\* balance and time stamp are all those of this call, whatever other calls
\* wrote before it landed; the other accounts stay; and a write that fails
\* changes nothing.
C20_ConcurrentDeliveries ==
    [][\A i \in inflight :
        Returned(i) =>
            IF last'.io.storeFails
            THEN store' = store
            ELSE IF i.write.collection = "transactions"
            THEN /\ transactions' = Append(transactions, i.write.data)
                 /\ accounts' = accounts
            ELSE /\ transactions' = transactions
                 /\ Cardinality(AccountsOf(accounts', i.write)) = 1
                 /\ \A d \in AccountsOf(accounts', i.write) :
                        /\ d.name = i.write.data.name
                        /\ d.balance = i.write.data.balance
                        /\ d.updatedAt = i.write.data.updatedAt
                 /\ accounts' \ AccountsOf(accounts', i.write)
                        = accounts \ AccountsOf(accounts, i.write)]_vars

\* Two balances of one account were in flight at once; the second of them to
\* land has landed, and the account has its balance and time stamp; two
\* additions landed in the order opposite to the one they were made in, and
\* both are in the store.
C20_Witness ==
    /\ inflight = {}
    /\ last.update = "text" /\ last.handlers = <<"updateAccountBalance">>
    /\ ~last.io.storeFails
    /\ last.overtaken
    /\ \E d \in accounts :
            /\ d.name = last.write.data.name
            /\ d.balance = last.write.data.balance
            /\ d.updatedAt = last.write.data.updatedAt
    /\ Len(transactions) = 2
    /\ TsLess(transactions[2].createdAt, transactions[1].createdAt)

---------------------------------------------------------------------------
(* C21 *)

\* C21: the calendar date stored on every transaction is the calendar date
\* of Asia/Tehran at the instant the transaction was created, the day on
\* which its stored creation instant falls in that zone.
C21_DateStamp ==
    \A i \in 1..Len(transactions) :
        transactions[i].date
            = WallDay(TsMillis(transactions[i].createdAt), TehranOffsetMin)

---------------------------------------------------------------------------
(* C22 *)

\* This step is the handling of a question of the operator.
AskStep == now' = now /\ last'.handlers = <<"handleAskQuestion">>

\* The transactions created in the 30 days before now.
InRecentWindow ==
    {i \in 1..Len(transactions) :
        LET c == transactions[i].createdAt
            age == now \div MsPerSec - c.seconds
        IN  \/ age < 30 * SecPerDay
            \/ age = 30 * SecPerDay
                    /\ c.nanoseconds \div 1000000 >= now % MsPerSec}

SectionOrder == <<"transactions", "accounts", "installments">>

\* C22: the context assembler writes nothing; when its reads succeed the
\* block has the section of the recent transactions, of the accounts and of
\* the installments, in this order, each exactly when its record set is not
\* empty, and it is the 'no data yet' placeholder alone exactly when the three
\* sets are empty, so it is never empty; a read that fails ends the handler
\* before the second model call.
C22_ContextAssembler ==
    [][AskStep =>
        /\ store' = store
        /\ IF last'.io.readFails
           THEN last'.context = <<>> /\ last'.calls = 1
                    /\ last'.replies = <<PleaseWaitText, DbReadErrorText>>
           ELSE LET c == last'.context
                    has(x) == \E i \in 1..Len(c) : c[i] = x
                IN  /\ c # <<>>
                    /\ has("transactions") <=> InRecentWindow # {}
                    /\ has("accounts") <=> accounts # {}
                    /\ has("installments") <=> installments # {}
                    /\ has("no_data") <=>
                        (InRecentWindow = {} /\ accounts = {} /\ installments = {})
                    /\ has("no_data") => c = <<"no_data">>
                    /\ ~has("no_data") =>
                        \E f \in [1..Len(c) -> 1..3] :
                            /\ \A i \in 1..Len(c) : c[i] = SectionOrder[f[i]]
                            /\ \A i, j \in 1..Len(c) : i < j => f[i] < f[j]]_vars

\* A question was answered over accounts, installments and a transaction
\* older than the window: the block has the two sections of what there is.
C22_Witness ==
    /\ last.handlers = <<"handleAskQuestion">> /\ last.replies = <<PleaseWaitText, AnswerText>>
    /\ transactions # <<>> /\ accounts # {} /\ installments # {}
    /\ last.context = <<"accounts", "installments">>

---------------------------------------------------------------------------
(* C23 *)

\* This step is a run of the sweep job.
SweepStep == now' = now /\ last'.update = "sweep"

\* The reminder is not sent and its instant is not later than now.
DueNow(r) == ~r.isSent /\ TsMillis(r.runAt) <= now

\* The messages of the reminders of a sequence, in its order.
MessagesOf(rs) == [i \in 1..Len(rs) |-> rs[i].message]

\* C23: a run of the sweep deletes the reminders that are not sent and whose
\* instant is not later than now, and no other (a run that fails before its
\* first delete deletes none), and it dispatches to the operator exactly the
\* reminders it deleted; a reminder whose instant is later than now stays as
\* it is; and only SetReminder adds a reminder.
C23_SweepSelection ==
    [][/\ SweepStep =>
            /\ \/ reminders' = SelectSeq(reminders, LAMBDA r : ~DueNow(r))
               \/ reminders' = reminders
            /\ \/ /\ reminders' = reminders
                  /\ last'.sent = <<>>
               \/ /\ reminders' # reminders
                  /\ last'.sent = MessagesOf(SelectSeq(reminders, DueNow))
       /\ Len(reminders') > Len(reminders) =>
            now' = now /\ last'.handlers = <<"setReminder">>]_vars

---------------------------------------------------------------------------
(* C24 *)

\* The run i of the sweep ended in this step.
RunEnded(i) == i.n \notin {o.n : o \in inflight'} /\ last'.update = "sweep"

\* C24: over runs of the sweep in any order, two of them overlapping
\* included, a run sends the message of a reminder only when the reminder is
\* still in the store, where this run then consumes it: no reminder that
\* another run has consumed is notified again.
C24_SweepIdempotence ==
    [][\A i \in inflight :
        RunEnded(i) /\ last'.sent # <<>> =>
            \A k \in 1..Len(i.due) :
                /\ \E j \in 1..Len(reminders) : reminders[j] = i.due[k]
                /\ \A j \in 1..Len(reminders') : reminders'[j].id # i.due[k].id]_vars

---------------------------------------------------------------------------
(* C27 *)

\* C27: for every reminder that a run of the sweep deletes from the store,
\* this run sends the operator a message with the reminder's text; when the
\* send or a later step of the run fails, the reminder is still in the store,
\* not sent, for a later run to deliver.
C27_ReminderNotLost ==
    [][SweepStep =>
        \A k \in 1..Len(reminders) :
            \/ \E j \in 1..Len(reminders') : reminders'[j] = reminders[k]
            \/ /\ last'.status = 200
               /\ \E j \in 1..Len(last'.sent) : last'.sent[j] = reminders[k].message]_vars

---------------------------------------------------------------------------
(* C25 *)

\* C25: when the report endpoint has answered a POST that had a document
\* body and a file name, and the run wrote the transient file, the file is
\* not in the temporary directory any more, whether the relay to the chat
\* succeeded or failed.
C25_ReportCleanup ==
    (last.update = "report" /\ last.written)
        => last.req.fileName \notin tmpdir

---------------------------------------------------------------------------
(* C26 *)

\* The JSON text a reply body carries.
JsonOf(body) ==
    LET i == CHOOSE i \in 1..Len(body) : DOMAIN body[i] = {"json"}
    IN  body[i].json

\* C26: a reply body that is a JSON object of the intent schema in a ```json
\* fence or in a plain ``` fence, with or without white space around the
\* fence, is parsed to what the object alone is parsed to.
C26_FenceRoundTrip ==
    (/\ last.update = "text"
     /\ last.g.call = "reply"
     /\ \E i \in 1..Len(last.g.body) : DOMAIN last.g.body[i] = {"json"})
        => last.analysis
             = getGeminiAnalysis(Replies(FALSE, "STOP", Bare(JsonOf(last.g.body))))

---------------------------------------------------------------------------
(* C28 *)

\* This step is a run of the job that did the tasks of the daily summary.
DailyStep == now' = now /\ last'.update = "sweep" /\ last'.daily

\* The days from today to the next day of the month numbered day, in the
\* Persian month of today.
DaysToDue(day) ==
    LET p == PersianDate(WallDay(now, TehranOffsetMin))
    IN  IF day >= p.day THEN day - p.day ELSE day + p.days - p.day

\* C28: on a run with the daily summary, checkInstallments writes a warning
\* for an installment exactly when its next due day is 0, 1, 2 or 3 days
\* after today's Persian day of the month, the next due day being in the
\* following month when the day has passed in this one.
C28_InstallmentWarning ==
    [][DailyStep =>
        \A i \in installments :
            (\E w \in last'.installmentMessages : w.name = i.name)
                <=> DaysToDue(i.day) \in 0..3]_vars

---------------------------------------------------------------------------
(* C29 *)

\* The expenses of category c that addTransaction stamped with a day of the
\* Persian month of today.
SpentThisMonth(c) ==
    LET p == PersianDate(WallDay(now, TehranOffsetMin))
        ofMonth(t) ==
            /\ t.type = "expense" /\ t.category = c
            /\ PersianDate(t.date).year = p.year
            /\ PersianDate(t.date).month = p.month
    IN  SumOfKind(SelectSeq(transactions, ofMonth), "expense")

\* C29: on a run with the daily summary, checkBudgets writes an alert for a
\* budget exactly when the expenses of its category that addTransaction
\* recorded with a date of the current month come to at least 90% of the
\* budget's amount.
C29_BudgetAlert ==
    [][DailyStep =>
        \A b \in budgets :
            (\E a \in last'.budgetMessages : a.category = b.category)
                <=> SpentThisMonth(b.category) * 100 >= 90 * b.amount]_vars

---------------------------------------------------------------------------
(* C30 *)

\* C30: a GetBalance for the name of an account that UpdateBalance stored,
\* the name 'all' included, answers with the balance of that one account,
\* never with the list of all the accounts and their total.
C30_AllSentinel ==
    [][AnswersBalance =>
        \A d \in accounts :
            last'.analysis.value.account.name = d.name =>
                last'.message
                    = [kind |-> "one", name |-> d.name, balance |-> d.balance]]_vars

===========================================================================
